---- MODULE Spec2Model ----
(***************************************************************************)
(* A model of asyncio-webpy's request dispatch core: web/application.py    *)
(* (application, loadhook, unloadhook) and the parts of web/webapi.py it   *)
(* calls (HTTPError and its subclasses, header, NotFound).                 *)
(*                                                                         *)
(* Strings are sequences of one-character strings, so that prefix tests,   *)
(* slicing and concatenation are computed, not assumed.  A request is      *)
(* executed in small steps on an explicit stack of coroutine frames; the   *)
(* variable `running' is the event loop's run token, released only where   *)
(* the code awaits the transport or an asynchronous handler.               *)
(***************************************************************************)
EXTENDS Integers, Sequences, FiniteSets, TLC

VARIABLES
    active,     \* the tasks (one per in-flight request) of this run
    layout,     \* which processors were registered on the Engines
    overrides,  \* the Engines whose notfound and internalerror were replaced
    scope,      \* per task: the ASGI scope of its current request
    ctx,        \* web.ctx, per context key
    phase,      \* per task: position in asgi()/__call__
    stack,      \* per task: the stack of suspended coroutine frames
    rv,         \* per task: value returned / exception raised to the top frame
    result,     \* per task: the local variable `result' of __call__
    sent,       \* per task: the messages passed to send()
    trace,      \* per task: the events of the current request, in order
    running,    \* the task that holds the event loop, or "-"
    nreq,       \* per task: requests started so far
    received,   \* per task: the messages receive() returned to the read loop
    reading     \* per task: the locals body and more_body of the read loop

vars == <<active, layout, overrides, scope, ctx, phase, stack, rv, result,
          sent, trace, running, nreq, received, reading>>

-----------------------------------------------------------------------------
(* Bounds *)

MaxRequests == 2

\* Messages the transport delivers before the last one of a request body
MaxMessages == 2

-----------------------------------------------------------------------------
(* Strings *)

Last(s) == s[Len(s)]

Front(s) == SubSeq(s, 1, Len(s) - 1)

\* str.startswith
StartsWith(s, p) == Len(p) <= Len(s) /\ SubSeq(s, 1, Len(p)) = p

\* s[n:]
DropFirst(s, n) == SubSeq(s, n + 1, Len(s))

NL == "\n"

\* str.upper() on the method tokens the model uses
Upper(m) == CASE m = "get" -> "GET"
              [] m = "internal" -> "INTERNAL"
              [] OTHER -> m

-----------------------------------------------------------------------------
(* Configuration: the Engines, their mapping tables and processors *)

Apps == {"r", "c", "g", "s"}

AllTasks == {"t1", "t2"}

\* A pattern is a literal, optionally followed by the group (.*); for a
\* nested Engine the literal is the mount prefix
Lit(s) == [lit |-> s, rest |-> FALSE]

LitRest(s) == [lit |-> s, rest |-> TRUE]

Entry(p, k, w) == [pat |-> p, kind |-> k, what |-> w]

\* application.mapping of each Engine: r mounts c at /a, c mounts g at /b;
\* the target of /o in r is the string "redirect /h/"; s is a
\* subdomain_application, whose patterns are matched against the host; the
\* target of /n in c is the integer 42, which _delegate does not recognise
Mapping(app) ==
    CASE app = "r" -> << Entry(Lit(<<"/", "a">>), "app", "c"),
                         Entry(Lit(<<"/", "a", "b">>), "class", "special"),
                         Entry(Lit(<<"/", "m">>), "class", "mover"),
                         Entry(Lit(<<"/", "o">>), "redirect", <<"/", "h", "/">>),
                         Entry(LitRest(<<"/">>), "class", "index"),
                         Entry(Lit(<<"/", "b">>), "class", "late") >>
      [] app = "c" -> << Entry(Lit(<<"/", "b">>), "app", "g"),
                         Entry(Lit(<<"/", "a">>), "class", "mid"),
                         Entry(Lit(<<"/", "m">>), "class", "mover"),
                         Entry(Lit(<<"/", "s">>), "class", "stream"),
                         Entry(Lit(<<"/", "k">>), "class", "baker"),
                         Entry(Lit(<<"/", "n">>), "other", "42") >>
      [] app = "g" -> << Entry(Lit(<<"/", "m">>), "class", "mover"),
                         Entry(LitRest(<<"/">>), "class", "leaf"),
                         Entry(Lit(<<"/", "a">>), "class", "late") >>
      [] app = "s" -> << Entry(Lit(<<"k">>), "class", "late"),
                         Entry(LitRest(<<"h">>), "app", "r"),
                         Entry(Lit(<<"h", "1">>), "app", "c") >>

\* The handler classes of fvars: per class, what each defined method does
ClassMethods(cls) ==
    CASE cls = "index" -> [GET |-> "return", POST |-> "error"]
      [] cls = "mid" -> [GET |-> "async", HEAD |-> "return", PATCH |-> "return",
                         POST |-> "error"]
      [] cls = "leaf" -> [GET |-> "return", POST |-> "notfound", PUT |-> "interrupt"]
      [] cls = "mover" -> [GET |-> "redirect", POST |-> "redirect absolute",
                           PUT |-> "exit"]
      [] cls = "stream" -> [GET |-> "yield", POST |-> "yield raise", PUT |-> "yield nothing"]
      [] cls = "baker" -> [GET |-> "setcookie", POST |-> "forbidden",
                           PUT |-> "yield forbidden"]
      [] OTHER -> [GET |-> "return"]

\* hasattr(cls, meth)
HasAttr(cls, meth) == meth \in DOMAIN ClassMethods(cls)

Layouts == {"hooks", "short", "plain", "subdomain"}

\* application.processors after add_processor: the two built-in hooks of
\* __init__ first, then the processors the layout registers
UserProcessors(lay, app) ==
    CASE lay = "hooks" -> <<"wrap", "loadhook", "unloadhook">>
      [] lay = "short" ->
            IF app = "c" THEN <<"loadhook", "short", "loadhook", "unloadhook">>
            ELSE <<"unloadhook", "loadhook">>
      [] lay = "subdomain" -> IF app = "g" THEN <<"abort">> ELSE <<>>
      [] OTHER -> <<>>

BuiltinProcessors == <<"loadhook", "unloadhook">>

Processors(lay, app) == BuiltinProcessors \o UserProcessors(lay, app)

-----------------------------------------------------------------------------
(* The pattern matcher *)

HasNL(s) == \E i \in 1..Len(s) : s[i] = NL

\* re.compile("^" + pat + "\Z").match(value) for the patterns of the model:
\* "." does not match a newline and \Z matches only at the very end
RegexMatches(pat, value) ==
    IF pat.rest
    THEN StartsWith(value, pat.lit) /\ ~HasNL(DropFirst(value, Len(pat.lit)))
    ELSE value = pat.lit

\* result.groups()
RegexGroups(pat, value) ==
    IF pat.rest THEN << DropFirst(value, Len(pat.lit)) >> ELSE << >>

\* One iteration of the loop of _match: does this entry end the search?
EntryMatches(entry, value) ==
    IF entry.kind = "app"
    THEN StartsWith(value, entry.pat.lit)
    ELSE RegexMatches(entry.pat, value)

RECURSIVE LastMatchFrom(_, _, _)
\* (a variant of MatchFrom that keeps searching after a match)
LastMatchFrom(mapping, value, i) ==
    IF i > Len(mapping) THEN 0
    ELSE LET later == LastMatchFrom(mapping, value, i + 1)
         IN  IF later # 0 THEN later
             ELSE IF EntryMatches(mapping[i], value) THEN i
             ELSE 0

RECURSIVE MatchFrom(_, _, _)
\* The loop of _match from entry i on: the index of the entry it returns
\* for, or 0 when it falls through to (None, None)
MatchFrom(mapping, value, i) ==
    IF i > Len(mapping) THEN 0
    ELSE IF EntryMatches(mapping[i], value) THEN i
    ELSE MatchFrom(mapping, value, i + 1)

Match(mapping, value) == MatchFrom(mapping, value, 1)

\* re.compile("^" + pat + "$").match(value): $ matches at the very end and
\* also just before a newline that ends the value
DollarMatches(pat, value) ==
    \/ RegexMatches(pat, value)
    \/ /\ value # <<>>
       /\ Last(value) = NL
       /\ RegexMatches(pat, Front(value))

RECURSIVE LastHostMatchFrom(_, _, _)
\* (a variant of HostMatchFrom that keeps searching after a match)
LastHostMatchFrom(mapping, value, i) ==
    IF i > Len(mapping) THEN 0
    ELSE LET later == LastHostMatchFrom(mapping, value, i + 1)
         IN  IF later # 0 THEN later
             ELSE IF DollarMatches(mapping[i].pat, value) THEN i
             ELSE 0

RECURSIVE HostMatchFrom(_, _, _)
\* The loop of subdomain_application._match from entry i on
HostMatchFrom(mapping, value, i) ==
    IF i > Len(mapping) THEN 0
    ELSE IF DollarMatches(mapping[i].pat, value) THEN i
    ELSE HostMatchFrom(mapping, value, i + 1)

RECURSIVE StripPort(_)
\* host.split(":")[0]
StripPort(host) ==
    IF host = <<>> \/ host[1] = ":" THEN <<>>
    ELSE <<host[1]>> \o StripPort(Tail(host))

-----------------------------------------------------------------------------
(* web.ctx *)

\* application.load: f"{ctx.protocol}://{host}:{port}"
HomeDomain(host) == <<"http://">> \o host \o <<":port">>

NoOldCtx == [set |-> FALSE, home |-> <<>>, homepath |-> <<>>,
             path |-> <<>>, fullpath |-> <<>>]

\* ctx.clear(): no attribute is set
ClearedCtx ==
    [loaded |-> FALSE, status |-> "-", headers |-> [type |-> "-", items |-> <<>>],
     homedomain |-> <<>>, homepath |-> <<>>, home |-> <<>>, realhome |-> <<>>,
     method |-> "-", path |-> <<>>, query |-> <<>>, fullpath |-> <<>>,
     host |-> <<>>, app_stack |-> <<>>, oldctx |-> NoOldCtx]

HexPairs == { <<"2", "F">>, <<"6", "1">>, <<"6", "2">> }

HexDecode(pair) == CASE pair = <<"2", "F">> -> "/"
                     [] pair = <<"6", "1">> -> "a"
                     [] OTHER -> "b"

RECURSIVE Unquote(_)
\* urllib.parse.unquote: %XX becomes the character it encodes
Unquote(s) ==
    IF s = <<>> THEN <<>>
    ELSE IF s[1] = "%" /\ Len(s) >= 3 /\ SubSeq(s, 2, 3) \in HexPairs
         THEN <<HexDecode(SubSeq(s, 2, 3))>> \o Unquote(DropFirst(s, 3))
         ELSE <<s[1]>> \o Unquote(DropFirst(s, 1))

\* application.load(scope)
LoadCtx(sc) ==
    LET homedomain == HomeDomain(sc.server)
        homepath == sc.root_path
        path == Unquote(sc.path)
        query == <<"?">> \o sc.query_string
    IN  [loaded |-> TRUE, status |-> "200",
         headers |-> [type |-> "list", items |-> <<>>],
         homedomain |-> homedomain, homepath |-> homepath,
         home |-> homedomain \o homepath, realhome |-> homedomain \o homepath,
         method |-> sc.method, path |-> path, query |-> query,
         fullpath |-> path \o query, host |-> sc.server,
         app_stack |-> <<>>, oldctx |-> NoOldCtx]

\* (a variant of AppLoad that pushes the Engine twice)
AppLoadTwice(c, app) == [c EXCEPT !.app_stack = Append(Append(@, app), app)]

\* application._load
AppLoad(c, app) == [c EXCEPT !.app_stack = Append(@, app)]

\* (a variant of AppUnload that restores whenever a snapshot exists)
AppUnloadIgnoresStack(c) ==
    LET popped == Front(c.app_stack)
        c1 == [c EXCEPT !.app_stack = popped]
    IN  IF c.oldctx.set
        THEN [c1 EXCEPT !.home = c.oldctx.home, !.homepath = c.oldctx.homepath,
                        !.path = c.oldctx.path, !.fullpath = c.oldctx.fullpath]
        ELSE c1

\* (a variant of AppUnload that restores the fields but pops nothing)
AppUnloadKeepsStack(c) ==
    IF c.app_stack # <<>> /\ c.oldctx.set
    THEN [c EXCEPT !.home = c.oldctx.home, !.homepath = c.oldctx.homepath,
                   !.path = c.oldctx.path, !.fullpath = c.oldctx.fullpath]
    ELSE c

\* application._unload
AppUnload(c) ==
    LET popped == Front(c.app_stack)
        c1 == [c EXCEPT !.app_stack = popped]
    IN  IF popped # <<>> /\ c.oldctx.set
        THEN [c1 EXCEPT !.home = c.oldctx.home, !.homepath = c.oldctx.homepath,
                        !.path = c.oldctx.path, !.fullpath = c.oldctx.fullpath]
        ELSE c1

\* (a variant of Rebase that strips the prefix from path only)
RebaseKeepsFullpath(c, dir) ==
    [c EXCEPT !.oldctx = [set |-> TRUE, home |-> c.home, homepath |-> c.homepath,
                          path |-> c.path, fullpath |-> c.fullpath],
              !.home = c.home \o dir,
              !.homepath = c.homepath \o dir,
              !.path = DropFirst(c.path, Len(dir))]

\* (a variant of Rebase that moves realhome along with home)
RebaseMovesRealhome(c, dir) ==
    [c EXCEPT !.oldctx = [set |-> TRUE, home |-> c.home, homepath |-> c.homepath,
                          path |-> c.path, fullpath |-> c.fullpath],
              !.home = c.home \o dir,
              !.realhome = c.realhome \o dir,
              !.homepath = c.homepath \o dir,
              !.path = DropFirst(c.path, Len(dir)),
              !.fullpath = DropFirst(c.fullpath, Len(dir))]

\* (a variant of Rebase that leaves home as it was)
RebaseKeepsHome(c, dir) ==
    [c EXCEPT !.oldctx = [set |-> TRUE, home |-> c.home, homepath |-> c.homepath,
                          path |-> c.path, fullpath |-> c.fullpath],
              !.homepath = c.homepath \o dir,
              !.path = DropFirst(c.path, Len(dir)),
              !.fullpath = DropFirst(c.fullpath, Len(dir))]

\* The assignments of application._delegate_sub_application(dir, app)
Rebase(c, dir) ==
    [c EXCEPT !.oldctx = [set |-> TRUE, home |-> c.home, homepath |-> c.homepath,
                          path |-> c.path, fullpath |-> c.fullpath],
              !.home = c.home \o dir,
              !.homepath = c.homepath \o dir,
              !.path = DropFirst(c.path, Len(dir)),
              !.fullpath = DropFirst(c.fullpath, Len(dir))]

-----------------------------------------------------------------------------
(* Values, exceptions and the HTTPError classes of web/webapi.py *)

\* What a call returns: None, a plain value, a generator, or a coroutine
\* object process(processors[idx:]) of an Engine that was not started yet
\* (hooks: the unload hooks wrap() attached to a generator)
Value(t, app, idx, data) ==
    [t |-> t, app |-> app, idx |-> idx, data |-> data, hooks |-> <<>>,
     fails |-> FALSE, raises |-> "-"]

NoneV == Value("none", "-", 0, <<>>)

Val(data) == Value("val", "-", 0, data)

Coro(app, idx) == Value("coro", app, idx, <<>>)

\* A generator object that was not started: the chunks it will yield, and
\* what it raises after the last of them ("-": it ends)
Gen(chunks, raises) ==
    [Value("gen", "-", 0, chunks) EXCEPT !.fails = raises # "-", !.raises = raises]

Exc(kind, status, data) == [kind |-> kind, status |-> status, data |-> data]

NoExc == Exc("-", "-", <<>>)

TypeError == Exc("TypeError", "-", <<>>)

\* (a variant of IsAwaitable: process() never awaits what a processor returned)
NeverAwaitable(v) == FALSE

\* inspect.isawaitable
IsAwaitable(v) == v.t = "coro"

\* (a variant of IsIter that takes no value for an iterator)
NeverIter(v) == FALSE

\* py3helpers.is_iter: x and hasattr(x, "__next__")
IsIter(v) == v.t = "gen"

HasCRLF(s) == \E i \in 1..Len(s) : s[i] \in {NL, "\r"}

\* hdr in ctx.headers: a list that holds no string has no member equal to hdr
HeaderPresent(c, hdr) ==
    /\ c.headers.type # "list"
    /\ \E i \in 1..Len(c.headers.items) : c.headers.items[i][1] = hdr

\* webapi.header(hdr, value, unique): the context after it, and what it raised
Header(c, hdr, value, unique) ==
    IF HasCRLF(hdr) \/ HasCRLF(value)
    THEN [raised |-> "ValueError", ctx |-> c]
    ELSE IF unique /\ HeaderPresent(c, hdr)
    THEN [raised |-> "-", ctx |-> c]
    ELSE IF c.headers.type = "list"
         \* ctx.headers[hdr] = value on a list: a str is no list index
    THEN [raised |-> "TypeError", ctx |-> c]
    ELSE [raised |-> "-",
          ctx |-> [c EXCEPT !.headers.items = Append(@, <<hdr, value>>)]]

RECURSIVE Headers(_, _)
\* for k, v in headers.items(): header(k, v)
Headers(c, hs) ==
    IF hs = <<>> THEN [raised |-> "-", ctx |-> c]
    ELSE LET r == Header(c, hs[1][1], hs[1][2], FALSE)
         IN  IF r.raised # "-" THEN r ELSE Headers(r.ctx, Tail(hs))

\* HTTPError.__init__(status, headers, data): the context after it and the
\* exception object, or the exception the constructor itself raised
HTTPError(c, status, headers, data) ==
    LET c1 == [c EXCEPT !.status = status]
        r == Headers(c1, headers)
    IN  IF r.raised = "-"
        THEN [ctx |-> r.ctx, exc |-> Exc("HTTPError", status, data)]
        ELSE [ctx |-> r.ctx, exc |-> Exc(r.raised, "-", <<>>)]

ContentTypeHtml == << <<"Content-Type">>, <<"text/html">> >>

\* webapi._NotFound()
DefaultNotFound(c) ==
    HTTPError(c, "404 Not Found", <<ContentTypeHtml>>, <<"not found">>)

\* webapi._InternalError()
DefaultInternalError(c) ==
    HTTPError(c, "500 Internal Server Error", <<ContentTypeHtml>>,
              <<"internal server error">>)

\* The replacement of the tests: lambda: web.HTTPError("404 Not Found", {}, ...)
CustomNotFound(c, app) ==
    HTTPError(c, "404 Not Found", <<>>, <<"not found by", app>>)

StandardMethods == <<"GET", "HEAD", "POST", "PUT", "DELETE">>

\* [method for method in methods if hasattr(cls, method)]
AllowedMethods(cls) == SelectSeq(StandardMethods, LAMBDA m : HasAttr(cls, m))

RECURSIVE JoinComma(_)
\* ", ".join(methods)
JoinComma(methods) ==
    IF Len(methods) <= 1 THEN methods
    ELSE <<methods[1], ",", " ">> \o JoinComma(Tail(methods))

\* webapi.NoMethod(cls); cls = "-" stands for None
NoMethod(c, cls) ==
    LET methods == IF cls # "-" THEN AllowedMethods(cls) ELSE StandardMethods
    IN  HTTPError(c, "405 Method Not Allowed",
                  <<ContentTypeHtml, << <<"Allow">>, JoinComma(methods) >> >>,
                  <<"405 Method Not Allowed">>)

RECURSIVE DirName(_)
\* The base path up to and including its last "/"
DirName(path) ==
    IF path = <<>> \/ Last(path) = "/" THEN path ELSE DirName(Front(path))

\* urljoin(base, url) for a url that is a path: one that starts with "/"
\* replaces the base path, any other replaces its last segment
UrlJoin(base, url) ==
    IF StartsWith(url, <<"/">>) THEN url ELSE DirName(base) \o url

\* Redirect.__init__: the home a root-relative location is prefixed with
RedirectHome(c, absolute) == IF absolute THEN c.realhome ELSE c.home

\* webapi.Redirect(url, status, absolute)
Redirect(c, url, status, absolute) ==
    LET joined == UrlJoin(c.path, url)
        newloc == IF StartsWith(joined, <<"/">>)
                  THEN RedirectHome(c, absolute) \o joined
                  ELSE joined
    IN  HTTPError(c, status,
                  <<ContentTypeHtml, << <<"Location">>, newloc >> >>, <<>>)

\* webapi.setcookie(name, value): Morsel.OutputString() with the default
\* path, then header("Set-Cookie", value)
SetCookie(c, name, value) ==
    Header(c, <<"Set-Cookie">>,
           name \o <<"=">> \o value \o <<";", " ", "Path", "=">>
                \o c.homepath \o <<"/">>,
           FALSE)

\* application.get_parent_app; "-" stands for None
ParentApp(c, app) ==
    LET at == {i \in 1..Len(c.app_stack) : c.app_stack[i] = app}
    IN  IF at = {} THEN "-"
        ELSE LET index == CHOOSE i \in at : \A j \in at : i <= j
             IN  IF index > 1 THEN c.app_stack[index - 1] ELSE "-"

RECURSIVE AppNotFound(_, _, _)
\* app.notfound(): the replaced attribute if there is one, else the method
AppNotFound(c, ov, app) ==
    IF app \in ov THEN CustomNotFound(c, app)
    ELSE IF ParentApp(c, app) # "-" THEN AppNotFound(c, ov, ParentApp(c, app))
    ELSE DefaultNotFound(c)

\* webapi.NotFound() without a message
NotFound(c, ov) ==
    IF c.app_stack # <<>> THEN AppNotFound(c, ov, Last(c.app_stack))
    ELSE DefaultNotFound(c)

\* A replacement of the internalerror attribute:
\* lambda: web.HTTPError("500 Internal Server Error", {}, ...)
CustomInternalError(c, app) ==
    HTTPError(c, "500 Internal Server Error", <<>>, <<"error by", app>>)

RECURSIVE InternalError(_, _, _)
\* app.internalerror(): the replaced attribute if there is one, else the
\* method, with web.config.debug off
InternalError(c, ov, app) ==
    IF app \in ov THEN CustomInternalError(c, app)
    ELSE IF ParentApp(c, app) # "-" THEN InternalError(c, ov, ParentApp(c, app))
    ELSE DefaultInternalError(c)

-----------------------------------------------------------------------------
(* Requests *)

Methods == {"GET", "HEAD", "POST", "PUT", "get"}

Paths == { <<"/", "b">>,
           <<"/", "a", "/", "a">>,
           <<"/", "a", "/", "b", "/", "a">>,
           <<"/", "a", "/", "b">>,
           <<"/", "a", "b">>,
           <<"/", "a", "/", "b", "/">>,
           <<"/", "%", "6", "1", "/", "b", "/", "%", "6", "2">>,
           <<"/", NL>>,
           <<"/", "m">>,
           <<"/", "a", "/", "m">>,
           <<"/", "a", "/", "b", "/", "m">>,
           <<"/", "a", "/", "s">>,
           <<"/", "a", "/", "k">>,
           <<"/", "a", "/", "n">> }

RootPaths == { <<>>, <<"/", "x">> }

\* scope["server"][0] of the requests that are not routed by host
DefaultHost == <<"0">>

Scope(m, p, root, qs) ==
    [method |-> m, path |-> p, root_path |-> root, query_string |-> qs,
     server |-> DefaultHost]

NoScope == Scope("-", <<>>, <<>>, <<>>)

QueryStrings == { <<>>, <<"x", "=", "2">> }

\* Requests for the mapping entry whose target is a redirect string
RedirectScopes ==
    { Scope(m, <<"/", "o">>, root, qs) :
          m \in {"GET", "POST"}, root \in RootPaths, qs \in QueryStrings }

Scopes ==
    { Scope(m, p, root, <<>>) : m \in Methods, p \in Paths, root \in RootPaths }
    \cup RedirectScopes

Hosts == { <<"h", "1">>, <<"h", "1", NL>>, <<"h">>, <<"k">>, <<"z">> }

\* Requests to the subdomain_application
HostScopes ==
    { [Scope(m, p, <<>>, <<>>) EXCEPT !.server = h] :
          m \in {"GET", "POST"}, h \in Hosts,
          p \in { <<"/", "b">>, <<"/", "a", "/", "a">>, <<"/", "m">>,
                  <<"/", "a", "/", "b", "/", "a">> } }

\* The requests of the runs with two concurrent tasks
ConcScopes ==
    { Scope("GET", <<"/", "a", "/", "a">>, <<>>, <<>>),
      Scope("POST", <<"/", "a", "/", "b", "/", "a">>, <<"/", "x">>, <<>>),
      Scope("PUT", <<"/", "b">>, <<>>, <<>>),
      Scope("get", <<"/", "b">>, <<>>, <<>>),
      Scope("GET", <<"/", "a", "/", "s">>, <<>>, <<>>) }

\* The Engine whose asgifunc() the server calls
RootApp == "r"

\* ... unless the deployment puts the subdomain_application in front of it
Outermost(lay) == IF lay = "subdomain" THEN "s" ELSE RootApp

\* (a variant of CtxOf with one set of attributes for the whole process)
SharedCtx(t) == "t1"

\* The context of the request a task handles: utils.Context keeps one
\* set of attributes per request
CtxOf(t) == t

-----------------------------------------------------------------------------
(* Frames and events *)

Frame(fn, app, idx, pc, cls, meth, args) ==
    [fn |-> fn, app |-> app, idx |-> idx, pc |-> pc,
     cls |-> cls, meth |-> meth, args |-> args]

ProcessFrame(app, idx) == Frame("process", app, idx, "start", "-", "-", <<>>)

NoRv == [m |-> "-", v |-> NoneV, e |-> NoExc]

Ret(v) == [m |-> "ret", v |-> v, e |-> NoExc]

Raise(e) == [m |-> "exc", v |-> NoneV, e |-> e]

\* An event of the request, with the path fields of the context at the time
Ev(e, app, idx, who, c) ==
    [e |-> e, app |-> app, idx |-> idx, who |-> who, method |-> c.method,
     home |-> c.home, homepath |-> c.homepath, path |-> c.path,
     fullpath |-> c.fullpath, app_stack |-> c.app_stack]

Top(t) == stack[t][Len(stack[t])]

Below(t) == Front(stack[t])

Me(t) == ctx[CtxOf(t)]

\* One step of task t inside the processor chain
Step(t, st, r, c, evs, run) ==
    /\ stack' = [stack EXCEPT ![t] = st]
    /\ rv' = [rv EXCEPT ![t] = r]
    /\ ctx' = [ctx EXCEPT ![CtxOf(t)] = c]
    /\ trace' = [trace EXCEPT ![t] = @ \o evs]
    /\ running' = run
    /\ UNCHANGED <<active, layout, overrides, scope, phase, result, sent, nreq, received, reading>>

InChain(t, fn) ==
    /\ t \in active
    /\ phase[t] = "chain"
    /\ stack[t] # <<>>
    /\ Top(t).fn = fn

-----------------------------------------------------------------------------
(* The transport boundary: asgifunc and application.__call__ *)

\* A message receive() returns
InMessage(type, body, more) == [type |-> type, body |-> body, more_body |-> more]

InMessages ==
    { InMessage("http.request", <<"x">>, TRUE),
      InMessage("http.request", <<"y">>, FALSE),
      InMessage("http.disconnect", <<"z">>, FALSE) }

IsLastRequestMessage(msg) == msg.type = "http.request" /\ ~msg.more_body

\* body = b""; more_body = True
LoopStart == [body |-> <<>>, more_body |-> TRUE]

\* The locals of the read loop when no loop is running
NotReading == [body |-> <<>>, more_body |-> FALSE]

\* (a variant of Absorb that takes the fields of a message of any type)
AbsorbAnyType(rd, msg) ==
    [body |-> rd.body \o msg.body, more_body |-> msg.more_body]

\* if message["type"] == "http.request":
\*     body += message["body"]; more_body = message["more_body"]
Absorb(rd, msg) ==
    IF msg.type = "http.request"
    THEN [body |-> rd.body \o msg.body, more_body |-> msg.more_body]
    ELSE rd

InitWith(tasks, lays, ovs) ==
    /\ active = tasks
    /\ layout \in lays
    /\ overrides \in ovs
    /\ scope = [t \in AllTasks |-> NoScope]
    /\ ctx = [k \in AllTasks |-> ClearedCtx]
    /\ phase = [t \in AllTasks |-> "idle"]
    /\ stack = [t \in AllTasks |-> <<>>]
    /\ rv = [t \in AllTasks |-> NoRv]
    /\ result = [t \in AllTasks |-> NoneV]
    /\ sent = [t \in AllTasks |-> <<>>]
    /\ trace = [t \in AllTasks |-> <<>>]
    /\ running = "-"
    /\ nreq = [t \in AllTasks |-> 0]
    /\ received = [t \in AllTasks |-> <<>>]
    /\ reading = [t \in AllTasks |-> NotReading]

OverrideSets == { {}, {"r"}, {"c"}, {"r", "g"} }

Init == InitWith({"t1"}, Layouts, OverrideSets)

InitConc == InitWith(AllTasks, {"hooks", "plain"}, { {} })

\* asgi(scope): the server hands a new request to the application, which
\* initialises the context from the scope
Load(t) ==
    /\ t \in active
    /\ running = "-"
    /\ phase[t] \in {"idle", "done", "failed"}
    /\ nreq[t] < MaxRequests
    /\ \E sc \in (IF Cardinality(active) > 1 THEN ConcScopes
                  ELSE IF layout = "subdomain" THEN HostScopes ELSE Scopes) :
          /\ scope' = [scope EXCEPT ![t] = sc]
          /\ ctx' = [ctx EXCEPT ![CtxOf(t)] = LoadCtx(sc)]
    /\ phase' = [phase EXCEPT ![t] = "recv"]
    /\ stack' = [stack EXCEPT ![t] = <<>>]
    /\ rv' = [rv EXCEPT ![t] = NoRv]
    /\ result' = [result EXCEPT ![t] = NoneV]
    /\ sent' = [sent EXCEPT ![t] = <<>>]
    /\ trace' = [trace EXCEPT ![t] = <<>>]
    /\ nreq' = [nreq EXCEPT ![t] = @ + 1]
    /\ received' = [received EXCEPT ![t] = <<>>]
    /\ reading' = [reading EXCEPT ![t] = LoopStart]
    /\ UNCHANGED <<active, layout, overrides, running>>

\* __call__: message = await receive(), and what the loop does with it
Receive(t) ==
    /\ t \in active
    /\ running = "-"
    /\ phase[t] = "recv"
    /\ reading[t].more_body
    /\ \E msg \in InMessages :
          LET rd == Absorb(reading[t], msg)
          IN  /\ Len(received[t]) < MaxMessages \/ IsLastRequestMessage(msg)
              /\ received' = [received EXCEPT ![t] = Append(@, msg)]
              /\ reading' = [reading EXCEPT ![t] = rd]
              /\ phase' = [phase EXCEPT ![t] = IF rd.more_body THEN "recv"
                                               ELSE "dispatch"]
              /\ running' = IF rd.more_body THEN "-" ELSE t
    /\ UNCHANGED <<active, layout, overrides, scope, ctx, stack, rv, result,
                   sent, trace, nreq>>

\* __call__: the method check and the call of handle_with_processors()
CallDispatch(t) ==
    /\ t \in active
    /\ running = t
    /\ phase[t] = "dispatch"
    /\ IF Upper(Me(t).method) # Me(t).method
       THEN LET r == NoMethod(Me(t), "-")
            IN  /\ ctx' = [ctx EXCEPT ![CtxOf(t)] = r.ctx]
                /\ IF r.exc.kind = "HTTPError"
                   THEN /\ result' = [result EXCEPT ![t] = Val(r.exc.data)]
                        /\ phase' = [phase EXCEPT ![t] = "start"]
                        /\ rv' = rv
                        /\ running' = running
                   ELSE /\ result' = result
                        /\ phase' = [phase EXCEPT ![t] = "failed"]
                        /\ rv' = [rv EXCEPT ![t] = Raise(r.exc)]
                        /\ running' = "-"
                /\ stack' = stack
       ELSE /\ stack' = [stack EXCEPT ![t] = <<ProcessFrame(Outermost(layout), 1)>>]
            /\ phase' = [phase EXCEPT ![t] = "chain"]
            /\ UNCHANGED <<ctx, result, rv, running>>
    \* body and more_body are read nowhere after the loop
    /\ received' = [received EXCEPT ![t] = <<>>]
    /\ reading' = [reading EXCEPT ![t] = NotReading]
    /\ UNCHANGED <<active, layout, overrides, scope, sent, trace, nreq>>

\* __call__: the chain returned (result = ...), raised an HTTPError
\* (result = e.data), or raised something else, which leaves the call
CallResult(t) ==
    /\ t \in active
    /\ running = t
    /\ phase[t] = "chain"
    /\ stack[t] = <<>>
    /\ rv[t].m # "-"
    /\ IF rv[t].m = "ret"
       THEN /\ result' = [result EXCEPT ![t] = rv[t].v]
            /\ phase' = [phase EXCEPT ![t] = "start"]
            /\ rv' = [rv EXCEPT ![t] = NoRv]
            /\ running' = running
       ELSE IF rv[t].e.kind = "HTTPError"
       THEN /\ result' = [result EXCEPT ![t] = Val(rv[t].e.data)]
            /\ phase' = [phase EXCEPT ![t] = "start"]
            /\ rv' = [rv EXCEPT ![t] = NoRv]
            /\ running' = running
       ELSE /\ phase' = [phase EXCEPT ![t] = "failed"]
            /\ running' = "-"
            /\ UNCHANGED <<result, rv>>
    /\ UNCHANGED <<active, layout, overrides, scope, ctx, stack, sent, trace, nreq, received, reading>>

Message(type, status, headers, body, more) ==
    [type |-> type, status |-> status, headers |-> headers,
     body |-> body, more_body |-> more]

\* __call__: await send({"type": "http.response.start", ...})
\* (a variant of StartMessage that always reports the status load() stored)
StartMessageInitialStatus(c) ==
    Message("http.response.start", "200", c.headers.items, <<>>, FALSE)

\* {"type": "http.response.start", "status": web.ctx.status,
\*  "headers": web.ctx.headers}
StartMessage(c) ==
    Message("http.response.start", c.status, c.headers.items, <<>>, FALSE)

SendStart(t) ==
    /\ t \in active
    /\ running = t
    /\ phase[t] = "start"
    /\ sent' = [sent EXCEPT ![t] = Append(@, StartMessage(Me(t)))]
    /\ phase' = [phase EXCEPT ![t] = "body"]
    /\ running' = "-"
    /\ UNCHANGED <<active, layout, overrides, scope, ctx, stack, rv, result,
                   trace, nreq, received, reading>>

\* (a variant of SendBody that sends the value and then an empty final message)
SendBodyThenFinal(t) ==
    /\ t \in active
    /\ running = "-"
    /\ phase[t] = "body"
    /\ ~IsIter(result[t])
    /\ sent' = [sent EXCEPT ![t] = @ \o
                   << [type |-> "http.response.body", status |-> "-",
                       headers |-> <<>>, body |-> result[t].data, more_body |-> TRUE],
                      [type |-> "http.response.body", status |-> "-",
                       headers |-> <<>>, body |-> <<>>, more_body |-> FALSE] >>]
    /\ phase' = [phase EXCEPT ![t] = "done"]
    /\ UNCHANGED <<active, layout, overrides, scope, ctx, stack, rv, result,
                   trace, running, nreq, received, reading>>

\* __call__: the body of a result that is no iterator, in one message
SendBody(t) ==
    /\ t \in active
    /\ running = "-"
    /\ phase[t] = "body"
    /\ ~IsIter(result[t])
    /\ sent' = [sent EXCEPT ![t] = Append(@,
                   Message("http.response.body", "-", <<>>, result[t].data, FALSE))]
    /\ phase' = [phase EXCEPT ![t] = "done"]
    /\ UNCHANGED <<active, layout, overrides, scope, ctx, stack, rv, result,
                   trace, running, nreq, received, reading>>

RECURSIVE RunDeferred(_, _)
\* unloadhook.wrap: the hooks deferred to the end of the iterator, innermost
\* first; each is called as h()
RunDeferred(c, hooks) ==
    IF hooks = <<>> THEN [ctx |-> c, evs |-> <<>>]
    ELSE LET c1 == IF hooks[1][2] = 2 THEN AppUnload(c) ELSE c
             rest == RunDeferred(c1, Tail(hooks))
         IN  [ctx |-> rest.ctx,
              evs |-> <<Ev("unload", hooks[1][1], hooks[1][2], "deferred", c1)>>
                        \o rest.evs]

\* __call__: for chunck in result: await send(...), then the final message
SendChunk(t) ==
    /\ t \in active
    /\ running = "-"
    /\ phase[t] = "body"
    /\ IsIter(result[t])
    /\ LET n == Len(sent[t]) - 1
           chunks == result[t].data
           \* what the generator raises, if it raises: an HTTPError it
           \* constructs then sets ctx.status
           raised == IF result[t].raises = "HTTPError"
                     THEN HTTPError(Me(t), "403 Forbidden", <<>>, <<"forbidden">>)
                     ELSE [ctx |-> Me(t), exc |-> Exc(result[t].raises, "-", <<>>)]
           deferred == RunDeferred(IF n < Len(chunks) THEN Me(t) ELSE raised.ctx,
                                   result[t].hooks)
           atend == [ctx |-> deferred.ctx, evs |-> deferred.evs, exc |-> raised.exc]
       IN  IF n < Len(chunks)
           THEN \* next(result) yields a chunk
                /\ sent' = [sent EXCEPT ![t] = Append(@,
                       Message("http.response.body", "-", <<>>, chunks[n + 1], TRUE))]
                /\ trace' = [trace EXCEPT ![t] =
                       Append(@, Ev("chunk", "-", n + 1, "-", Me(t)))]
                /\ UNCHANGED <<phase, rv, ctx>>
           ELSE IF result[t].fails
           THEN \* next(result) raises: the exception leaves __call__
                /\ phase' = [phase EXCEPT ![t] = "failed"]
                /\ rv' = [rv EXCEPT ![t] = Raise(atend.exc)]
                /\ ctx' = [ctx EXCEPT ![CtxOf(t)] = atend.ctx]
                /\ trace' = [trace EXCEPT ![t] =
                       Append(@, Ev("chunk", "-", n + 1, "raise", Me(t))) \o atend.evs]
                /\ UNCHANGED sent
           ELSE \* StopIteration: the loop ends and the final message is sent
                /\ sent' = [sent EXCEPT ![t] = Append(@,
                       Message("http.response.body", "-", <<>>, <<>>, FALSE))]
                /\ phase' = [phase EXCEPT ![t] = "done"]
                /\ ctx' = [ctx EXCEPT ![CtxOf(t)] = atend.ctx]
                /\ trace' = [trace EXCEPT ![t] =
                       Append(@, Ev("chunk", "-", n + 1, "stop", Me(t))) \o atend.evs]
                /\ UNCHANGED rv
    /\ UNCHANGED <<active, layout, overrides, scope, stack, result, running, nreq, received, reading>>

-----------------------------------------------------------------------------
(* handle_with_processors: process(processors) *)

\* The continuation process() hands to a processor is `lambda: process(...)'
Continuation == "lambda"

\* inspect.iscoroutinefunction
IsCoroutineFunction(f) == f = "async def"

\* process(): call the next processor, or handle() when none is left;
\* await what a processor returned when it is awaitable; return
Process(t) ==
    /\ InChain(t, "process")
    /\ running = t
    /\ rv[t].m # "exc"
    /\ LET f == Top(t)
           c == Me(t)
           procs == Processors(layout, f.app)
       IN  CASE f.pc = "start" ->
                  IF f.idx <= Len(procs)
                  THEN Step(t, Below(t) \o << [f EXCEPT !.pc = "called"],
                              Frame(procs[f.idx], f.app, f.idx, "start", "-", "-", <<>>) >>,
                            NoRv, c, <<Ev("enter", f.app, f.idx, "-", c)>>, t)
                  ELSE Step(t, Below(t) \o << [f EXCEPT !.pc = "handling"],
                              Frame("handle", f.app, 0, "start", "-", "-", <<>>) >>,
                            NoRv, c, <<Ev("enter", f.app, f.idx, "-", c)>>, t)
             [] f.pc = "called" /\ rv[t].m = "ret" ->
                  IF IsAwaitable(rv[t].v)
                  THEN Step(t, Below(t) \o << [f EXCEPT !.pc = "awaiting"],
                              ProcessFrame(rv[t].v.app, rv[t].v.idx) >>,
                            NoRv, c, <<>>, t)
                  ELSE Step(t, Below(t), rv[t], c,
                            <<Ev("exit", f.app, f.idx, "return", c)>>, t)
             [] f.pc \in {"awaiting", "handling"} /\ rv[t].m = "ret" ->
                  Step(t, Below(t), rv[t], c,
                       <<Ev("exit", f.app, f.idx, "return", c)>>, t)
             [] OTHER -> FALSE

\* (a variant of Reraised that re-raises nothing but HTTPError)
ReraisedHTTPErrorOnly(kind) == kind = "HTTPError"

\* process(): the exceptions its first two except clauses re-raise
Reraised(kind) == kind \in {"HTTPError", "KeyboardInterrupt", "SystemExit"}

\* process(): the except clauses; the event "except" records the exception
\* that arrived at this frame
ProcessExcept(t) ==
    /\ InChain(t, "process")
    /\ running = t
    /\ rv[t].m = "exc"
    /\ LET f == Top(t)
           c == Me(t)
           arrived == Ev("except", f.app, f.idx, rv[t].e.kind, c)
       IN  IF Reraised(rv[t].e.kind)
           THEN Step(t, Below(t), rv[t], c,
                     <<arrived, Ev("exit", f.app, f.idx, "raise", c)>>, t)
           ELSE LET r == InternalError(c, overrides, f.app)
                IN  Step(t, Below(t), Raise(r.exc), r.ctx,
                         <<arrived, Ev("exit", f.app, f.idx, "raise", r.ctx)>>, t)

-----------------------------------------------------------------------------
(* loadhook and unloadhook *)

\* The hook h of the processor at position idx: the first two are the
\* built-in _load and _unload, a registered hook only leaves its event
RunHook(c, app, idx) ==
    CASE idx = 1 -> AppLoad(c, app)
      [] idx = 2 -> AppUnload(c)
      [] OTHER -> c

\* loadhook(h).processor(handler)
LoadHook(t) ==
    /\ InChain(t, "loadhook")
    /\ running = t
    /\ LET f == Top(t)
           c == Me(t)
           c1 == RunHook(c, f.app, f.idx)
       IN  CASE f.pc = "start" ->
                  IF IsCoroutineFunction(Continuation)
                  THEN Step(t, Below(t) \o << [f EXCEPT !.pc = "awaiting"],
                              ProcessFrame(f.app, f.idx + 1) >>,
                            NoRv, c1, <<Ev("load", f.app, f.idx, "-", c1)>>, t)
                  ELSE Step(t, Below(t), Ret(Coro(f.app, f.idx + 1)), c1,
                            <<Ev("load", f.app, f.idx, "-", c1)>>, t)
             [] f.pc = "awaiting" /\ rv[t].m # "-" ->
                  Step(t, Below(t), rv[t], c, <<>>, t)
             [] OTHER -> FALSE

\* (a variant of UnloadFinish that defers the hook for every result)
UnloadAlwaysWraps(isgen) == "wrap"

\* unloadhook: what processor() does once it holds the result
UnloadFinish(isgen) == IF isgen THEN "wrap" ELSE "hook"

\* unloadhook(h).processor(handler)
UnloadHook(t) ==
    /\ InChain(t, "unloadhook")
    /\ running = t
    /\ LET f == Top(t)
           c == Me(t)
           c1 == RunHook(c, f.app, f.idx)
           res == IF f.pc = "start" THEN Coro(f.app, f.idx + 1) ELSE rv[t].v
       IN  CASE f.pc = "start" /\ IsCoroutineFunction(Continuation) ->
                  Step(t, Below(t) \o << [f EXCEPT !.pc = "awaiting"],
                         ProcessFrame(f.app, f.idx + 1) >>, NoRv, c, <<>>, t)
             [] f.pc = "awaiting" /\ rv[t].m = "exc" ->
                  IF rv[t].e.kind \in {"KeyboardInterrupt", "SystemExit"}
                  THEN Step(t, Below(t), rv[t], c, <<>>, t)
                  ELSE Step(t, Below(t), rv[t], c1,
                            <<Ev("unload", f.app, f.idx, "-", c1)>>, t)
             [] \/ f.pc = "start" /\ ~IsCoroutineFunction(Continuation)
                \/ f.pc = "awaiting" /\ rv[t].m = "ret" ->
                  IF UnloadFinish(IsIter(res)) = "wrap"
                  THEN Step(t, Below(t),
                            Ret([res EXCEPT !.hooks = Append(@, <<f.app, f.idx>>)]),
                            c, <<>>, t)
                  ELSE Step(t, Below(t), Ret(res), c1,
                            <<Ev("unload", f.app, f.idx, "-", c1)>>, t)
             [] OTHER -> FALSE

-----------------------------------------------------------------------------
(* Processors an application registers itself *)

\* "wrap":  async def processor(handler):
\*              return web.ctx.path + ":" + await handler()
\* "short": async def processor(handler): return "short"
\* "abort": async def processor(handler): raise SystemExit()
UserProcessor(t) ==
    /\ \/ InChain(t, "wrap")
       \/ InChain(t, "short")
       \/ InChain(t, "abort")
    /\ running = t
    /\ LET f == Top(t)
           c == Me(t)
       IN  CASE f.fn = "short" ->
                  Step(t, Below(t), Ret(Val(<<"short">>)), c,
                       <<Ev("short", f.app, f.idx, "-", c)>>, t)
             [] f.fn = "abort" ->
                  Step(t, Below(t), Raise(Exc("SystemExit", "-", <<>>)), c,
                       <<Ev("abort", f.app, f.idx, "-", c)>>, t)
             [] f.fn = "wrap" /\ f.pc = "start" ->
                  Step(t, Below(t) \o << [f EXCEPT !.pc = "awaiting", !.args = c.path],
                         ProcessFrame(f.app, f.idx + 1) >>,
                       NoRv, c, <<Ev("pre", f.app, f.idx, "-", c)>>, t)
             [] f.fn = "wrap" /\ f.pc = "awaiting" /\ rv[t].m = "ret" ->
                  IF rv[t].v.t = "val"
                  THEN Step(t, Below(t), Ret(Val(f.args \o <<":">> \o rv[t].v.data)), c,
                            <<Ev("post", f.app, f.idx, "return", c)>>, t)
                  ELSE Step(t, Below(t), Raise(TypeError), c,
                            <<Ev("post", f.app, f.idx, "raise", c)>>, t)
             [] f.fn = "wrap" /\ f.pc = "awaiting" /\ rv[t].m = "exc" ->
                  Step(t, Below(t), rv[t], c,
                       <<Ev("post", f.app, f.idx, "raise", c)>>, t)
             [] OTHER -> FALSE

-----------------------------------------------------------------------------
(* application.handle: _match and _delegate *)

\* (a variant of SelectMethod in which HEAD always falls back to GET)
SelectMethodAlwaysGet(cls, verb) == IF verb = "HEAD" THEN "GET" ELSE verb

\* handle_class: the method the request verb selects
SelectMethod(cls, verb) ==
    IF verb = "HEAD" /\ ~HasAttr(cls, verb) THEN "GET" ELSE verb

\* The plain value a handler method returns: its class, then its first group
HandlerValue(cls, args) ==
    Val(<<cls, " ">> \o (IF args = <<>> THEN <<>> ELSE args[1]))

\* (a variant of Delegated that hands on a returned value as text around it
\* and an exception as a new plain one)
DelegatedWrapped(r) ==
    IF r.m = "ret" THEN Ret([r.v EXCEPT !.data = <<"[">> \o @ \o <<"]">>])
    ELSE Raise(Exc("Exception", "-", <<>>))

\* _delegate: `return await f' for the coroutine of the child's
\* handle_with_processors(), `return tocall(*args)' for a class: what the
\* callee returned or raised is the outcome of handle()
Delegated(r) == r

Handle(t) ==
    /\ InChain(t, "handle")
    /\ running = t
    /\ LET f == Top(t)
           c == Me(t)
           mapping == Mapping(f.app)
           byhost == f.app = "s"
           \* subdomain_application.handle matches the host, port stripped
           i == IF byhost THEN HostMatchFrom(mapping, StripPort(c.host), 1)
                ELSE Match(mapping, c.path)
           matched == Ev(IF byhost THEN "hostmatch" ELSE "match", f.app, i, "-", c)
       IN  CASE f.pc = "start" /\ i = 0 ->
                  \* _delegate(None): raise web.notfound()
                  LET r == NotFound(c, overrides)
                  IN  Step(t, Below(t), Raise(r.exc), r.ctx, <<matched>>, t)
             [] f.pc = "start" /\ i > 0 /\ mapping[i].kind = "app" /\ byhost ->
                  \* _delegate: isinstance(f, application)
                  Step(t, Below(t) \o << [f EXCEPT !.pc = "awaiting"],
                         ProcessFrame(mapping[i].what, 1) >>,
                       NoRv, c,
                       <<matched, Ev("hostdelegate", f.app, i, mapping[i].what, c)>>, t)
             [] f.pc = "start" /\ i > 0 /\ mapping[i].kind = "redirect" ->
                  \* _delegate: f.startswith("redirect "); the query string
                  \* of the scope is bytes, and "?" + bytes is a TypeError
                  LET r == IF c.method = "GET" /\ scope[t].query_string # <<>>
                           THEN [ctx |-> c, exc |-> TypeError]
                           ELSE Redirect(c, mapping[i].what,
                                         "301 Moved Permanently", FALSE)
                  IN  Step(t, Below(t), Raise(r.exc), r.ctx,
                           <<matched, Ev("redirect", f.app, i, "mapping", c)>>, t)
             [] f.pc = "start" /\ i > 0 /\ mapping[i].kind = "app" /\ ~byhost ->
                  \* _delegate_sub_application, then _delegate awaits the
                  \* coroutine of the child's handle_with_processors()
                  LET c1 == Rebase(c, mapping[i].pat.lit)
                  IN  Step(t, Below(t) \o << [f EXCEPT !.pc = "awaiting"],
                             ProcessFrame(mapping[i].what, 1) >>,
                           NoRv, c1,
                           <<matched, Ev("delegate", f.app, i, mapping[i].what, c)>>, t)
             [] f.pc = "start" /\ i > 0 /\ mapping[i].kind = "class" ->
                  LET cls == mapping[i].what
                      meth == SelectMethod(cls, c.method)
                      args == RegexGroups(mapping[i].pat, c.path)
                  IN  IF ~HasAttr(cls, meth)
                      THEN LET r == NoMethod(c, cls)
                           IN  Step(t, Below(t), Raise(r.exc), r.ctx,
                                    <<matched, Ev("nomethod", f.app, i, cls, c)>>, t)
                      ELSE Step(t, Below(t) \o << [f EXCEPT !.pc = "awaiting"],
                                  Frame("method", f.app, 0, "start", cls, meth, args) >>,
                                NoRv, c, <<matched>>, t)
             [] f.pc = "start" /\ i > 0 /\ mapping[i].kind = "other" ->
                  \* _delegate: return web.notfound(); the exception object
                  \* is returned when its constructor raised nothing, and
                  \* str() of it is its status
                  LET r == NotFound(c, overrides)
                      other == Ev("other", f.app, i, "-", c)
                  IN  IF r.exc.kind = "HTTPError"
                      THEN Step(t, Below(t), Ret(Val(<<r.exc.status>>)), r.ctx,
                                <<matched, other, Ev("return", f.app, i, "other", r.ctx)>>, t)
                      ELSE Step(t, Below(t), Raise(r.exc), r.ctx,
                                <<matched, other>>, t)
             [] f.pc = "awaiting" /\ rv[t].m # "-" ->
                  Step(t, Below(t), Delegated(rv[t]), c, <<>>, t)
             [] OTHER -> FALSE

\* The handler method tocall(*args) of the class
HandlerBody(t) ==
    /\ InChain(t, "method")
    /\ LET f == Top(t)
           c == Me(t)
           does == ClassMethods(f.cls)[f.meth]
           called == Ev("call", f.app, 0, f.meth, c)
       IN  CASE f.pc = "start" /\ does = "return" ->
                  /\ running = t
                  /\ Step(t, Below(t), Ret(HandlerValue(f.cls, f.args)), c,
                          <<called, Ev("return", f.app, 0, f.meth, c)>>, t)
             [] f.pc = "start" /\ does = "notfound" ->
                  \* raise web.notfound()
                  /\ running = t
                  /\ LET r == NotFound(c, overrides)
                     IN  Step(t, Below(t), Raise(r.exc), r.ctx,
                              <<called, Ev("raise", f.app, 0, "notfound", r.ctx)>>, t)
             [] f.pc = "start" /\ does \in {"redirect", "redirect absolute"} ->
                  \* raise web.redirect("/bar"[, absolute=True])
                  /\ running = t
                  /\ LET absolute == does = "redirect absolute"
                         r == Redirect(c, <<"/", "bar">>, "301 Moved Permanently",
                                       absolute)
                     IN  Step(t, Below(t), Raise(r.exc), r.ctx,
                              <<called, Ev("redirect", f.app, 0,
                                           IF absolute THEN "absolute" ELSE "relative",
                                           c)>>, t)
             [] f.pc = "start" /\ does = "forbidden" ->
                  \* raise web.HTTPError("403 Forbidden", {}, "forbidden")
                  /\ running = t
                  /\ LET r == HTTPError(c, "403 Forbidden", <<>>, <<"forbidden">>)
                     IN  Step(t, Below(t), Raise(r.exc), r.ctx,
                              <<called, Ev("raise", f.app, 0, "forbidden", r.ctx)>>, t)
             [] f.pc = "start" /\ does = "setcookie" ->
                  \* web.setcookie("n", "v"); return "baker"
                  /\ running = t
                  /\ LET r == SetCookie(c, <<"n">>, <<"v">>)
                         cookie == Ev("setcookie", f.app, 0, f.meth, c)
                     IN  IF r.raised = "-"
                         THEN Step(t, Below(t), Ret(Val(<<"baker">>)), r.ctx,
                                   <<called, cookie, Ev("return", f.app, 0, f.meth, r.ctx)>>, t)
                         ELSE Step(t, Below(t), Raise(Exc(r.raised, "-", <<>>)), r.ctx,
                                   <<called, cookie>>, t)
             [] f.pc = "start" /\ does \in {"yield", "yield raise", "yield nothing",
                                            "yield forbidden"} ->
                  \* a generator function: the call returns the generator
                  \* object, its body runs when __call__ iterates
                  /\ running = t
                  /\ LET chunks == CASE does = "yield" -> << <<"h", "i">>, <<"!">> >>
                                     [] does = "yield raise" -> << <<"h", "i">> >>
                                     [] does = "yield forbidden" -> << <<"a">> >>
                                     [] OTHER -> << >>
                         \* "yield forbidden": yield "a", then
                         \* raise web.HTTPError("403 Forbidden", {}, "forbidden")
                         raises == CASE does = "yield raise" -> "Exception"
                                     [] does = "yield forbidden" -> "HTTPError"
                                     [] OTHER -> "-"
                     IN  Step(t, Below(t), Ret(Gen(chunks, raises)), c,
                              <<called, Ev("generator", f.app, 0, f.meth, c)>>, t)
             [] f.pc = "start" /\ does = "error" ->
                  /\ running = t
                  /\ Step(t, Below(t), Raise(Exc("Exception", "-", <<>>)), c,
                          <<called, Ev("raise", f.app, 0, "error", c)>>, t)
             [] f.pc = "start" /\ does \in {"interrupt", "exit"} ->
                  \* raise KeyboardInterrupt() / raise SystemExit()
                  /\ running = t
                  /\ Step(t, Below(t),
                          Raise(Exc(IF does = "interrupt" THEN "KeyboardInterrupt"
                                    ELSE "SystemExit", "-", <<>>)), c,
                          <<called, Ev("raise", f.app, 0, does, c)>>, t)
             [] f.pc = "start" /\ does = "async" ->
                  \* async def: the method awaits something of its own
                  /\ running = t
                  /\ Step(t, Below(t) \o << [f EXCEPT !.pc = "suspended"] >>,
                          NoRv, c, <<called>>, "-")
             [] f.pc = "suspended" ->
                  /\ running = "-"
                  /\ Step(t, Below(t), Ret(HandlerValue(f.cls, f.args)), c,
                          <<Ev("return", f.app, 0, f.meth, c)>>, t)
             [] OTHER -> FALSE

-----------------------------------------------------------------------------
(* Specifications *)

Next ==
    \E t \in AllTasks :
        \/ Load(t)
        \/ Receive(t)
        \/ CallDispatch(t)
        \/ Process(t)
        \/ ProcessExcept(t)
        \/ LoadHook(t)
        \/ UnloadHook(t)
        \/ UserProcessor(t)
        \/ Handle(t)
        \/ HandlerBody(t)
        \/ CallResult(t)
        \/ SendStart(t)
        \/ SendBody(t)
        \/ SendChunk(t)

\* One request at a time, every configuration
Spec == Init /\ [][Next]_vars

\* Two requests in flight
SpecConc == InitConc /\ [][Next]_vars

-----------------------------------------------------------------------------
(* Reading the events of a request *)

Events(t) == 1..Len(trace[t])

\* How often the hook of the processor at (app, idx) ran
Fired(t, e, app, idx) ==
    Cardinality({i \in Events(t) : /\ trace[t][i].e = e
                                    /\ trace[t][i].app = app
                                    /\ trace[t][i].idx = idx})

\* process(processors[idx - 1:]) of the Engine was started
Entered(t, app, idx) ==
    \E i \in Events(t) : /\ trace[t][i].e = "enter"
                         /\ trace[t][i].app = app
                         /\ trace[t][i].idx = idx

\* The request reached the Engine: its chain was started
Reached(t, app) == Entered(t, app, 1)

\* handle_with_processors() of the outermost Engine is over
ChainOver(t) == phase[t] \in {"start", "body", "done", "failed"}

\* The request is over: the last message was sent, or an exception left the call
RequestOver(t) == phase[t] \in {"done", "failed"}

HookPositions(kind, app) ==
    {k \in 1..Len(Processors(layout, app)) : Processors(layout, app)[k] = kind}

\* Every processor registered before position idx passes control on
PassThroughBefore(app, idx) ==
    \A k \in 1..(idx - 1) : Processors(layout, app)[k] # "short"

\* The mount prefixes on the way from the outermost Engine to an Engine
MountPrefix(app) ==
    CASE app = "c" -> Mapping("r")[1].pat.lit
      [] app = "g" -> Mapping("r")[1].pat.lit \o Mapping("c")[1].pat.lit
      [] OTHER -> <<>>

\* The Engine that mounts an Engine; "-" for the outermost
MountedIn(app) ==
    CASE app = "g" -> "c"
      [] app = "c" -> "r"
      [] app = "r" /\ layout = "subdomain" -> "s"
      [] OTHER -> "-"

-----------------------------------------------------------------------------
(* C1 *)

\* C1: the side effect of every unload hook, the built-in pop of the
\* app-stack included, happens only after the continuation the hook wraps
\* (the rest of the Engine's chain, and so the matched handler) has returned
\* or raised.
C1_UnloadAfterContinuation ==
    \A t \in AllTasks : \A i \in Events(t) :
        trace[t][i].e = "unload" =>
            \E j \in 1..(i - 1) : /\ trace[t][j].e = "exit"
                                  /\ trace[t][j].app = trace[t][i].app
                                  /\ trace[t][j].idx = trace[t][i].idx + 1

-----------------------------------------------------------------------------
(* C2 *)

\* C2 as stated: an unload hook registered on an Engine has run exactly once
\* when the chain of a request that reached the Engine is over.
C2_UnloadOncePerReachingRequest ==
    \A t \in AllTasks : \A app \in Apps : \A idx \in HookPositions("unloadhook", app) :
        ChainOver(t) /\ Reached(t, app) => Fired(t, "unload", app, idx) = 1

\* C2 amended: an unload hook registered on an Engine runs at most once per
\* request, and exactly once when the request reached the Engine and every
\* processor registered before the hook on that Engine passed control on,
\* whether the handler returned, raised not-found or raised anything else;
\* it does not run for a request that did not reach the Engine.
C2_UnloadExactlyOnce ==
    \A t \in AllTasks : \A app \in Apps : \A idx \in HookPositions("unloadhook", app) :
        /\ Fired(t, "unload", app, idx) <= 1
        /\ ~Reached(t, app) => Fired(t, "unload", app, idx) = 0
        /\ ChainOver(t) /\ Reached(t, app) /\ PassThroughBefore(app, idx)
              => Fired(t, "unload", app, idx) = 1

\* A request whose handler raised not-found is over and a registered unload
\* hook of the Engine of that handler has run
C2_Witness ==
    \E t \in AllTasks : \E i \in Events(t) :
        /\ RequestOver(t)
        /\ trace[t][i].e = "raise"
        /\ trace[t][i].who = "notfound"
        /\ \E idx \in HookPositions("unloadhook", trace[t][i].app) :
              idx > 2 /\ Fired(t, "unload", trace[t][i].app, idx) = 1

-----------------------------------------------------------------------------
(* C3 *)

PathFields(e) == <<e.home, e.homepath, e.path, e.fullpath>>

\* C3: when the chain of a nested Engine finishes, by return or by exception,
\* ctx.home, ctx.homepath, ctx.path and ctx.fullpath equal the values they had
\* immediately before that Engine was delegated to.
C3_PathFieldsRestored ==
    \A t \in AllTasks : \A i \in Events(t) :
        /\ trace[t][i].e = "exit"
        /\ trace[t][i].idx = 1
        /\ trace[t][i].app # RootApp
        => \E j \in 1..(i - 1) :
              /\ trace[t][j].e = "delegate"
              /\ trace[t][j].who = trace[t][i].app
              /\ PathFields(trace[t][j]) = PathFields(trace[t][i])

-----------------------------------------------------------------------------
(* C4 *)

\* The path of the request as load() stores it
OriginalPath(t) == Unquote(scope[t].path)

\* The body of the response, when both messages were sent
Body(t) == sent[t][2].body

\* C4: a handler of an Engine mounted under the prefix dir runs with ctx.path
\* and ctx.fullpath equal to the original ones with dir removed from the
\* front and with ctx.homepath and ctx.home extended by dir; without other
\* processors the body of the response is what the child's handler, when it
\* returned, made of the stripped path; a request whose path does not start with the prefix is
\* served by the outermost Engine alone.
C4_ChildPathRebased ==
    \A t \in AllTasks :
        LET orig == OriginalPath(t)
            full == orig \o <<"?">> \o scope[t].query_string
        IN  /\ \A i \in Events(t) :
                  LET e == trace[t][i]
                      dir == MountPrefix(e.app)
                  IN  e.e = "call" =>
                        /\ StartsWith(orig, dir)
                        /\ e.path = DropFirst(orig, Len(dir))
                        /\ e.fullpath = DropFirst(full, Len(dir))
                        /\ e.homepath = scope[t].root_path \o dir
                        /\ e.home = HomeDomain(scope[t].server) \o scope[t].root_path \o dir
                        /\ (/\ phase[t] = "done"
                            /\ layout = "plain"
                            /\ e.app = "g"
                            /\ e.who = "GET"
                            /\ \E j \in Events(t) : /\ trace[t][j].e = "return"
                                                    /\ trace[t][j].app = "g")
                           => Body(t) = <<"leaf", " ">> \o DropFirst(orig, Len(dir) + 1)
            /\ ~StartsWith(orig, MountPrefix("c"))
                  => \A i \in Events(t) : trace[t][i].app \in {RootApp, Outermost(layout)}

\* A request answered by a handler of the innermost Engine, which ran with the
\* two mount prefixes stripped from a path that came percent-encoded
C4_Witness ==
    \E t \in AllTasks : \E i \in Events(t) :
        /\ phase[t] = "done"
        /\ layout = "plain"
        /\ trace[t][i].e = "call"
        /\ trace[t][i].app = "g"
        /\ trace[t][i].path = <<"/", "b">>
        /\ scope[t].path # OriginalPath(t)
        /\ scope[t].root_path # <<>>
        /\ Body(t) = <<"leaf", " ", "b">>

-----------------------------------------------------------------------------
(* C5 *)

\* The statuses the request of a task can have set itself
OwnStatuses(t) ==
    {"200"}
    \cup {"404 Not Found" : i \in {k \in Events(t) :
              \/ trace[t][k].e = "match" /\ trace[t][k].idx = 0
              \/ trace[t][k].e = "raise" /\ trace[t][k].who = "notfound"}}
    \cup {"405 Method Not Allowed" : i \in {k \in Events(t) :
              trace[t][k].e = "nomethod"}}
    \cup {"500 Internal Server Error" : i \in {k \in Events(t) :
              trace[t][k].e = "exit" /\ trace[t][k].who = "raise"}}

-----------------------------------------------------------------------------
(* C6 *)

RECURSIVE NearestOverride(_)
\* The body of the not-found override closest to an Engine on the way up
NearestOverride(app) ==
    IF app \in overrides THEN <<"not found by", app>>
    ELSE IF MountedIn(app) = "-" THEN <<"not found">>
    ELSE NearestOverride(MountedIn(app))

\* C6: a request in which no mapping entry of an Engine matched, or a handler
\* raised web.notfound(), is answered with status 404 and the body of the
\* not-found override of the innermost Engine on the delegation chain that
\* has one, the failing Engine first, and with the body 'not found' when none
\* has one.
C6_NotFoundByNearestOverride ==
    \A t \in AllTasks : \A i \in Events(t) :
        /\ RequestOver(t)
        /\ \/ trace[t][i].e = "match" /\ trace[t][i].idx = 0
           \/ trace[t][i].e = "raise" /\ trace[t][i].who = "notfound"
        => /\ phase[t] = "done"
           /\ sent[t][1].status = "404 Not Found"
           /\ Body(t) = NearestOverride(trace[t][i].app)

-----------------------------------------------------------------------------
(* C7 *)

\* C7: the entry the matcher selects is the first one, in declaration order,
\* whose pattern matches the value (full match for a handler, prefix match
\* for a nested Engine): no earlier entry matches, and nothing is selected
\* only when no entry matches.
C7_FirstMatchWins ==
    \A t \in AllTasks : \A i \in Events(t) :
        LET e == trace[t][i]
            mapping == Mapping(e.app)
        IN  e.e = "match" =>
              /\ e.idx \in 0..Len(mapping)
              /\ e.idx > 0 => EntryMatches(mapping[e.idx], e.path)
              /\ \A k \in 1..Len(mapping) :
                    (e.idx = 0 \/ k < e.idx) => ~EntryMatches(mapping[k], e.path)

\* The matcher selected an entry although a later entry, with a longer
\* literal pattern, matches the value too
C7_Witness ==
    \E t \in AllTasks : \E i \in Events(t) :
        LET e == trace[t][i]
            mapping == Mapping(e.app)
        IN  /\ e.e = "match"
            /\ e.idx > 0
            /\ \E k \in (e.idx + 1)..Len(mapping) :
                  /\ EntryMatches(mapping[k], e.path)
                  /\ Len(mapping[k].pat.lit) > Len(mapping[e.idx].pat.lit)

-----------------------------------------------------------------------------
(* C8 *)

\* C8 as stated: when the chain of a request is over, a load hook registered
\* on an Engine has fired once if the request reached that Engine (was
\* delegated to it, for a child) and not at all otherwise.
C8_LoadOncePerReachingRequest ==
    \A t \in AllTasks : \A app \in Apps : \A idx \in HookPositions("loadhook", app) :
        ChainOver(t) =>
            Fired(t, "load", app, idx) = (IF Reached(t, app) THEN 1 ELSE 0)

\* C8 amended: a load hook registered on an Engine fires at most once per
\* request, never for a request that was not delegated to that Engine (one
\* served by a sibling route of the parent), and exactly once for a request
\* that reached the Engine when every processor registered before the hook
\* on that Engine passed control on; so too for the parent's hook, whether
\* or not the request is delegated to the child.
C8_LoadExactlyOnce ==
    \A t \in AllTasks : \A app \in Apps : \A idx \in HookPositions("loadhook", app) :
        /\ Fired(t, "load", app, idx) <= 1
        /\ ~Reached(t, app) => Fired(t, "load", app, idx) = 0
        /\ ChainOver(t) /\ Reached(t, app) /\ PassThroughBefore(app, idx)
              => Fired(t, "load", app, idx) = 1

\* A finished request that was delegated to the child c and served there by
\* a route next to the mount of g: the hooks registered on r and on c
\* fired once, the one registered on g did not fire
C8_Witness ==
    \E t \in AllTasks :
        /\ RequestOver(t)
        /\ layout = "hooks"
        /\ \E i \in Events(t) : trace[t][i].e = "delegate" /\ trace[t][i].who = "c"
        /\ \E i \in Events(t) : trace[t][i].e = "call" /\ trace[t][i].app = "c"
        /\ Fired(t, "load", "r", 4) = 1
        /\ Fired(t, "load", "c", 4) = 1
        /\ Fired(t, "load", "g", 4) = 0

-----------------------------------------------------------------------------
(* C9 *)

\* The values of a header in a start message
HeaderValues(msg, hdr) ==
    {msg.headers[k][2] : k \in {j \in 1..Len(msg.headers) : msg.headers[j][1] = hdr}}

\* C9: when the class a request resolved to has no method for the verb (after
\* the fallback of HEAD to GET), the request is answered with status 405, an
\* Allow header that lists exactly the verbs among GET, HEAD, POST, PUT and
\* DELETE the class defines, and no handler method is called.
C9_NoMethodAnsweredWith405 ==
    \A t \in AllTasks : \A i \in Events(t) :
        RequestOver(t) /\ trace[t][i].e = "nomethod" =>
            /\ \A j \in Events(t) : trace[t][j].e # "call"
            /\ phase[t] = "done"
            /\ sent[t][1].status = "405 Method Not Allowed"
            /\ HeaderValues(sent[t][1], <<"Allow">>) = {JoinComma(AllowedMethods(trace[t][i].who))}

-----------------------------------------------------------------------------
(* C10 *)

\* C10: a request whose method token is not all upper case is answered with
\* status 405 Method Not Allowed, and no processor, hook or handler of any
\* Engine runs for it.
C10_LowercaseMethodRejected ==
    \A t \in AllTasks :
        RequestOver(t) /\ Upper(scope[t].method) # scope[t].method =>
            /\ trace[t] = <<>>
            /\ phase[t] = "done"
            /\ sent[t][1].status = "405 Method Not Allowed"

-----------------------------------------------------------------------------
(* C11 *)

\* C11: a request whose handler raised a redirect to the root-relative target
\* /bar is answered with a Location header equal to ctx.home + /bar (the
\* home domain, the root_path and the prefix of every enclosing mount) when
\* absolute is false, and to ctx.realhome + /bar (the home domain and the
\* root_path only) when absolute is true, at any nesting depth.
C11_RedirectLocation ==
    \A t \in AllTasks : \A i \in Events(t) :
        LET e == trace[t][i]
            base == HomeDomain(scope[t].server) \o scope[t].root_path
            prefix == IF e.who = "relative" THEN MountPrefix(e.app) ELSE <<>>
        IN  /\ RequestOver(t)
            /\ e.e = "redirect"
            /\ e.who \in {"relative", "absolute"}
            => /\ phase[t] = "done"
               /\ HeaderValues(sent[t][1], <<"Location">>)
                     = {base \o prefix \o <<"/", "bar">>}

-----------------------------------------------------------------------------
(* C12 *)

\* C12: a request in which a handler raised an exception that is neither an
\* HTTPError nor KeyboardInterrupt/SystemExit is answered with a response of
\* status 500; no exception leaves the call of the application.
C12_ExceptionAnsweredWith500 ==
    \A t \in AllTasks : \A i \in Events(t) :
        /\ RequestOver(t)
        /\ trace[t][i].e = "raise"
        /\ trace[t][i].who = "error"
        => /\ phase[t] = "done"
           /\ sent[t][1].status = "500 Internal Server Error"

-----------------------------------------------------------------------------
(* C13 *)

\* The handler of the request returned a generator
Streams(t) == \E i \in Events(t) : trace[t][i].e = "generator"

\* The generator was drained, or raised
IsLastNext(e) == e.e = "chunk" /\ e.who \in {"stop", "raise"}

\* C13: when the handler returned a generator, every unload hook on the
\* chain, the built-in app-stack pop included, runs only after the generator
\* produced its last chunk or raised, and has run exactly once when the
\* request is over.
C13_UnloadAfterLastChunk ==
    \A t \in AllTasks :
        Streams(t) =>
            /\ \A i \in Events(t) :
                  trace[t][i].e = "unload" =>
                      \E j \in 1..(i - 1) : IsLastNext(trace[t][j])
            /\ RequestOver(t) =>
                  \A app \in Apps : \A idx \in HookPositions("unloadhook", app) :
                      Reached(t, app) /\ PassThroughBefore(app, idx)
                          => Fired(t, "unload", app, idx) = 1

-----------------------------------------------------------------------------
(* C14 *)

IsStart(msg) == msg.type = "http.response.start"

IsBody(msg) == msg.type = "http.response.body"

\* C14: the messages sent for a request are one start message, then body
\* messages only, none of them after a body message with more_body false;
\* when the request is over the start message was sent and the last message
\* is a body message with more_body false.
C14_OneStartThenBodyThenFinal ==
    \A t \in AllTasks :
        /\ \A k \in 1..Len(sent[t]) :
              /\ IsStart(sent[t][k]) <=> k = 1
              /\ k > 1 => IsBody(sent[t][k])
              /\ (k > 1 /\ k < Len(sent[t])) => sent[t][k].more_body
        /\ RequestOver(t) =>
              /\ Len(sent[t]) >= 2
              /\ ~Last(sent[t]).more_body

-----------------------------------------------------------------------------
(* C15 *)

\* The chain of the outermost Engine returned a value that is no generator
ReturnedPlain(t) ==
    /\ ~IsIter(result[t])
    /\ \E i \in Events(t) : /\ trace[t][i].e = "exit"
                            /\ trace[t][i].app = Outermost(layout)
                            /\ trace[t][i].idx = 1
                            /\ trace[t][i].who = "return"

-----------------------------------------------------------------------------
(* C16 *)

RECURSIVE Flatten(_)
\* b"".join(chunks)
Flatten(chunks) ==
    IF chunks = <<>> THEN <<>> ELSE chunks[1] \o Flatten(Tail(chunks))

\* The bodies of the body messages sent so far, in order
Bodies(t) == [k \in 1..(Len(sent[t]) - 1) |-> sent[t][k + 1].body]

\* C16: when the result is a generator that yields n chunks, the body
\* messages after the start message are the chunks in generation order,
\* each marked more_body true, followed by exactly one final message with an
\* empty body and more_body false; the concatenated body is the
\* concatenation of the chunks.
C16_GeneratorStreamed ==
    \A t \in AllTasks :
        LET chunks == result[t].data
            n == Len(chunks)
        IN  result[t].t = "gen" =>
              /\ Len(sent[t]) <= n + 2
              /\ \A k \in 2..Len(sent[t]) :
                    IF k <= n + 1
                    THEN /\ IsBody(sent[t][k])
                         /\ sent[t][k].body = chunks[k - 1]
                         /\ sent[t][k].more_body
                    ELSE /\ IsBody(sent[t][k])
                         /\ sent[t][k].body = <<>>
                         /\ ~sent[t][k].more_body
              /\ (RequestOver(t) /\ ~result[t].fails) =>
                    /\ phase[t] = "done"
                    /\ Len(sent[t]) = n + 2
                    /\ IsStart(sent[t][1])
                    /\ Flatten(Bodies(t)) = Flatten(chunks)

\* A finished request whose generator yielded two chunks: four messages
C16_Witness ==
    \E t \in AllTasks :
        /\ phase[t] = "done"
        /\ result[t].t = "gen"
        /\ Len(result[t].data) = 2
        /\ Len(sent[t]) = 4
        /\ Flatten(Bodies(t)) = <<"h", "i", "!">>

-----------------------------------------------------------------------------
(* C17 *)

\* C17: when no entry of the mapping matches the path (a path that ends
\* with a newline after an otherwise matching text included) and no Engine
\* overrides not-found, no handler is called and the request is answered
\* with status 404 and the body 'not found'.
C17_NoMatchAnsweredWith404 ==
    \A t \in AllTasks : \A i \in Events(t) :
        /\ RequestOver(t)
        /\ overrides = {}
        /\ trace[t][i].e = "match"
        /\ trace[t][i].idx = 0
        => /\ \A j \in Events(t) : trace[t][j].e # "call"
           /\ phase[t] = "done"
           /\ Len(sent[t]) >= 2
           /\ sent[t][1].status = "404 Not Found"
           /\ Flatten(Bodies(t)) = <<"not found">>

-----------------------------------------------------------------------------
(* C18 *)

\* C18: a request that matched an entry whose target is the string
\* 'redirect <url>' is answered with status 301 Moved Permanently and the
\* Location home + url, followed by '?' and the query string of the request
\* when the method is GET and the query string is not empty, and by nothing
\* for any other method.
C18_RedirectTargetLocation ==
    \A t \in AllTasks : \A i \in Events(t) :
        LET e == trace[t][i]
            url == Mapping(e.app)[e.idx].what
            query == IF scope[t].method = "GET" /\ scope[t].query_string # <<>>
                     THEN <<"?">> \o scope[t].query_string
                     ELSE <<>>
        IN  /\ RequestOver(t)
            /\ e.e = "redirect"
            /\ e.who = "mapping"
            => /\ phase[t] = "done"
               /\ sent[t][1].status = "301 Moved Permanently"
               /\ HeaderValues(sent[t][1], <<"Location">>) = {e.home \o url \o query}

-----------------------------------------------------------------------------
(* C19 *)

\* The host the subdomain_application matches
RequestHost(t) == StripPort(scope[t].server)

\* The Engine selected by host handles the request with the path fields
\* that load() set
HostDelegationKeepsPath(t) ==
    \A i \in Events(t) :
        LET e == trace[t][i]
        IN  (layout = "subdomain" /\ e.e = "enter" /\ e.app = RootApp /\ e.idx = 1) =>
              /\ e.path = OriginalPath(t)
              /\ e.homepath = scope[t].root_path
              /\ e.home = HomeDomain(scope[t].server) \o scope[t].root_path

-----------------------------------------------------------------------------
(* C20 *)

\* C20: a request whose handler called setcookie("n", "v") without a path is
\* answered with the header Set-Cookie 'n=v; Path=<homepath>/', where
\* homepath is ctx.homepath at the time of the call: the root_path
\* followed by the prefixes of the mounts delegated into.
C20_CookiePathIsHomepath ==
    \A t \in AllTasks : \A i \in Events(t) :
        LET e == trace[t][i]
        IN  RequestOver(t) /\ e.e = "setcookie" =>
              /\ e.homepath = scope[t].root_path \o MountPrefix(e.app)
              /\ phase[t] = "done"
              /\ HeaderValues(sent[t][1], <<"Set-Cookie">>)
                    = { <<"n", "=", "v", ";", " ", "Path", "=">> \o e.homepath \o <<"/">> }

-----------------------------------------------------------------------------
(* C21 *)

RECURSIVE DelegationChain(_)
\* The Engines a request is delegated through to reach app, outermost first
DelegationChain(app) ==
    IF MountedIn(app) = "-" THEN <<app>>
    ELSE Append(DelegationChain(MountedIn(app)), app)

\* C21: when a handler method of Engine E is called, ctx.app_stack is the
\* sequence of the Engines the request was delegated through, outermost first
\* and E last.
C21_AppStackIsDelegationChain ==
    \A t \in AllTasks : \A i \in Events(t) :
        trace[t][i].e = "call"
            => trace[t][i].app_stack = DelegationChain(trace[t][i].app)

-----------------------------------------------------------------------------
(* C22 *)

\* The events of the part of a processor that runs before its continuation,
\* and of the part that runs after it
IsPrePart(e) == e.e \in {"load", "pre"}

IsPostPart(e) == e.e \in {"unload", "post"}

\* handle() of the Engine starts with the match of the path
IsHandlerStart(e) == e.e = "match"

\* C22: within one Engine the parts of the processors before the continuation
\* run in order of registration and before the handler, the parts after it
\* run after the handler in the reverse order; every load hook has run when
\* the handler starts.
C22_StrictNesting ==
    \A t \in AllTasks : \A i, j \in Events(t) :
        LET a == trace[t][i]
            b == trace[t][j]
        IN  (i < j /\ a.app = b.app) =>
              /\ (IsPrePart(a) /\ IsPrePart(b)) => a.idx < b.idx
              /\ (IsPostPart(a) /\ IsPostPart(b)) => a.idx > b.idx
              /\ ~(IsHandlerStart(a) /\ IsPrePart(b))
              /\ ~(IsPostPart(a) /\ IsHandlerStart(b))

-----------------------------------------------------------------------------
(* C23 *)

\* A handler method of the request raised an exception that is neither an
\* HTTPError nor KeyboardInterrupt/SystemExit
HandlerFailed(t) ==
    \E i \in Events(t) : trace[t][i].e = "raise" /\ trace[t][i].who = "error"

\* The frames of process() whose last except clause resolved internalerror()
Conversions(t) ==
    {i \in Events(t) : trace[t][i].e = "except" /\ ~Reraised(trace[t][i].who)}

\* C23: when a handler raised such an exception, it is converted into the
\* internal-error result by the outermost frame of the chain only: every
\* frame of process() sees the original exception arrive, and internalerror()
\* is resolved once in the request.
C23_ConvertedOnceAtOutermost ==
    \A t \in AllTasks :
        (HandlerFailed(t) /\ ChainOver(t)) =>
            /\ Cardinality(Conversions(t)) = 1
            /\ \A i \in Conversions(t) :
                  trace[t][i].app = Outermost(layout) /\ trace[t][i].idx = 1
            /\ \A i \in Events(t) :
                  trace[t][i].e = "except" => trace[t][i].who = "Exception"

-----------------------------------------------------------------------------
(* C24 *)

\* The HTTPError objects that were raised in the request: by a handler
\* method, by handle() itself, or by the generator while it was iterated
RaisedHTTPError(t) ==
    \/ \E i \in Events(t) :
          /\ trace[t][i].e = "except"
          /\ trace[t][i].who = "HTTPError"
    \/ /\ result[t].raises = "HTTPError"
       /\ \E i \in Events(t) :
             trace[t][i].e = "chunk" /\ trace[t][i].who = "raise"

\* C24: a request in which an HTTPError was raised, by a handler, by a
\* processor or by the generator of the body while the boundary iterates it,
\* ends with a complete response: a start message, the body and a last
\* message with more_body False; no exception leaves the call.
C24_HTTPErrorBecomesResponse ==
    \A t \in AllTasks :
        (RequestOver(t) /\ RaisedHTTPError(t)) =>
            /\ phase[t] = "done"
            /\ IsStart(sent[t][1])
            /\ ~Last(sent[t]).more_body

-----------------------------------------------------------------------------
(* C25 *)

\* C25: when the matched target is of no recognised kind, a not-found error
\* is raised through the chain, never returned as a result: the frame of
\* process() that called handle() sees an HTTPError arrive, and the request is
\* answered with status 404 and the not-found body of the nearest override.
C25_UnrecognisedTargetRaisesNotFound ==
    \A t \in AllTasks : \A i \in Events(t) :
        (RequestOver(t) /\ trace[t][i].e = "other") =>
            /\ \E j \in Events(t) :
                  /\ j > i
                  /\ trace[t][j].e = "except"
                  /\ trace[t][j].app = trace[t][i].app
                  /\ trace[t][j].who = "HTTPError"
            /\ phase[t] = "done"
            /\ sent[t][1].status = "404 Not Found"
            /\ Body(t) = NearestOverride(trace[t][i].app)

-----------------------------------------------------------------------------
(* C26 *)

\* The event of a handler method raising KeyboardInterrupt or SystemExit, or
\* of a processor raising SystemExit
IsInterrupt(e) ==
    \/ e.e = "raise" /\ e.who \in {"interrupt", "exit"}
    \/ e.e = "abort"

InterruptKind(e) ==
    IF e.e = "raise" /\ e.who = "interrupt" THEN "KeyboardInterrupt"
    ELSE "SystemExit"

\* C26: a KeyboardInterrupt or SystemExit raised by a handler or a processor
\* arrives unchanged at every enclosing frame of process(), whatever the depth
\* of the Engine, is converted by none of them and leaves the call of the
\* application: no message is sent.
C26_InterruptsPropagate ==
    \A t \in AllTasks : \A i \in Events(t) :
        IsInterrupt(trace[t][i]) =>
            /\ \A j \in Events(t) :
                  (j > i /\ trace[t][j].e = "except")
                      => trace[t][j].who = InterruptKind(trace[t][i])
            /\ ChainOver(t) =>
                  /\ phase[t] = "failed"
                  /\ rv[t].e.kind = InterruptKind(trace[t][i])
                  /\ sent[t] = <<>>
                  /\ \A app \in Apps : \A idx \in 1..Len(Processors(layout, app)) + 1 :
                        Entered(t, app, idx) =>
                            \E j \in Events(t) :
                                /\ trace[t][j].e = "except"
                                /\ trace[t][j].app = app
                                /\ trace[t][j].idx = idx

\* KeyboardInterrupt raised by a handler of the innermost Engine has left the
\* call through the frames of three Engines, one of them with a registered
\* processor around it
C26_Witness ==
    \E t \in AllTasks : \E i \in Events(t) :
        /\ phase[t] = "failed"
        /\ layout = "hooks"
        /\ trace[t][i].e = "raise"
        /\ trace[t][i].who = "interrupt"
        /\ trace[t][i].app = "g"
        /\ rv[t].e.kind = "KeyboardInterrupt"
        /\ Fired(t, "except", "r", 1) = 1
        /\ Fired(t, "post", "c", 3) = 1

\* SystemExit raised by a processor has left the call
C26_WitnessProcessor ==
    \E t \in AllTasks : \E i \in Events(t) :
        /\ phase[t] = "failed"
        /\ trace[t][i].e = "abort"
        /\ rv[t].e.kind = "SystemExit"
        /\ Fired(t, "except", "r", 1) = 1
        /\ Fired(t, "except", "s", 1) = 1

-----------------------------------------------------------------------------
(* C27 *)

\* The class whose method was called at event i: that of the mapping entry
\* matched just before
CalledClass(t, i) == Mapping(trace[t][i].app)[trace[t][i - 1].idx].what

\* C27: for a request with verb HEAD the method called is HEAD when the class
\* defines it and GET otherwise; for every other verb it is the method of
\* exactly that name; a class that defines neither is answered by no call.
C27_HeadFallsBackToGet ==
    \A t \in AllTasks : \A i \in Events(t) :
        LET e == trace[t][i]
        IN  /\ e.e = "call" =>
                /\ trace[t][i - 1].e \in {"match", "hostmatch"}
                /\ HasAttr(CalledClass(t, i), e.who)
                /\ e.who = IF scope[t].method # "HEAD" THEN scope[t].method
                           ELSE IF HasAttr(CalledClass(t, i), "HEAD") THEN "HEAD"
                           ELSE "GET"
            /\ e.e = "nomethod" =>
                /\ ~HasAttr(e.who, scope[t].method)
                /\ scope[t].method = "HEAD" => ~HasAttr(e.who, "GET")

\* A HEAD request was answered by the GET method of a class without HEAD
C27_Witness ==
    \E t \in AllTasks : \E i \in Events(t) :
        /\ phase[t] = "done"
        /\ scope[t].method = "HEAD"
        /\ trace[t][i].e = "call"
        /\ trace[t][i].who = "GET"
        /\ ~HasAttr(CalledClass(t, i), "HEAD")

\* A HEAD request was answered by the HEAD method of a class that has both
C27_WitnessOwnHead ==
    \E t \in AllTasks : \E i \in Events(t) :
        /\ phase[t] = "done"
        /\ scope[t].method = "HEAD"
        /\ trace[t][i].e = "call"
        /\ trace[t][i].who = "HEAD"
        /\ HasAttr(CalledClass(t, i), "GET")

-----------------------------------------------------------------------------
(* C28 *)

RECURSIVE NearestErrorOverride(_)
\* The internal-error body the delegation chain of an Engine resolves to: that
\* of the innermost Engine that replaced internalerror, else the default
NearestErrorOverride(app) ==
    IF app \in overrides THEN <<"error by", app>>
    ELSE IF MountedIn(app) = "-" THEN <<"internal server error">>
    ELSE NearestErrorOverride(MountedIn(app))

\* C28: a request whose handler raised an ordinary exception is answered with
\* status 500 and the internal-error result resolved along the delegation
\* chain of the handler's Engine: that of the innermost Engine with a
\* replacement, else (debug off) the default "internal server error".
C28_InternalErrorByNearestOverride ==
    \A t \in AllTasks : \A i \in Events(t) :
        (RequestOver(t) /\ trace[t][i].e = "raise" /\ trace[t][i].who = "error") =>
            /\ phase[t] = "done"
            /\ sent[t][1].status = "500 Internal Server Error"
            /\ Body(t) = NearestErrorOverride(trace[t][i].app)

-----------------------------------------------------------------------------
(* C29 *)

\* The request of the task was loaded and is not over
InRequest(t) == phase[t] \notin {"idle"}

\* C29: from load() to the end of the request ctx.homedomain is the scheme
\* and host of the request and ctx.realhome is that followed by the original
\* root_path, whatever was delegated into or returned from.
C29_RealhomeStable ==
    \A t \in AllTasks :
        InRequest(t) =>
            /\ Me(t).homedomain = HomeDomain(scope[t].server)
            /\ Me(t).realhome = HomeDomain(scope[t].server) \o scope[t].root_path

\* A request under a root_path was delegated two levels down and is over:
\* ctx.home has moved away from ctx.realhome
C29_Witness ==
    \E t \in AllTasks :
        /\ RequestOver(t)
        /\ scope[t].root_path # <<>>
        /\ Reached(t, "g")
        /\ Me(t).home = Me(t).realhome \o MountPrefix("g")
        /\ Me(t).realhome = HomeDomain(scope[t].server) \o scope[t].root_path

-----------------------------------------------------------------------------
(* C30 *)

\* The step is the built-in unload hook of task t running
BuiltinUnloadStep(t) ==
    /\ Len(trace'[t]) = Len(trace[t]) + 1
    /\ Last(trace'[t]).e = "unload"
    /\ Last(trace'[t]).idx = 2

\* C30: the built-in unload hook pops the app-stack and sets home, homepath,
\* path and fullpath back to the snapshot only when the stack is non-empty
\* after the pop and a snapshot exists; otherwise, and so for the outermost
\* Engine, it leaves the four fields as they are.
C30_UnloadRestoresOnlyNested ==
    [][\A t \in AllTasks :
          BuiltinUnloadStep(t) =>
              LET before == ctx[CtxOf(t)]
                  after == ctx'[CtxOf(t)]
                  left == Front(before.app_stack)
              IN  /\ after.app_stack = left
                  /\ PathFields(after) =
                        IF left # <<>> /\ before.oldctx.set
                        THEN PathFields(before.oldctx)
                        ELSE PathFields(before)
                  /\ Last(trace'[t]).app = Outermost(layout)
                        => PathFields(after) = PathFields(before)]_vars

\* The built-in unload hook of a mounted Engine has run while a snapshot
\* existed: the stack was empty after the pop and the four fields stayed those
\* of the mounted Engine
C30_Witness ==
    \E t \in AllTasks : \E i \in Events(t) :
        /\ trace[t][i].e = "unload"
        /\ trace[t][i].idx = 2
        /\ trace[t][i].app = "c"
        /\ trace[t][i].app_stack = <<>>
        /\ Me(t).oldctx.set
        /\ PathFields(trace[t][i]) = PathFields(trace[t][i - 1])
        /\ trace[t][i].homepath = scope[t].root_path \o MountPrefix("c")
        /\ PathFields(trace[t][i]) # PathFields(Me(t).oldctx)

-----------------------------------------------------------------------------
(* C31 *)

\* C31: the start message carries the status and the headers of the context
\* at the step that sends it, and stays as it was sent for the rest of the
\* request, whatever is stored in the context afterwards.
C31_StartFrameFixedWhenSent ==
    [][\A t \in AllTasks :
          /\ (sent[t] = <<>> /\ sent'[t] # <<>>) =>
                /\ IsStart(sent'[t][1])
                /\ sent'[t][1].status = ctx[CtxOf(t)].status
                /\ sent'[t][1].headers = ctx[CtxOf(t)].headers.items
          /\ (sent[t] # <<>> /\ sent'[t] # <<>>) => sent'[t][1] = sent[t][1]]_vars

\* The generator of the body constructed an HTTPError after the start message
\* was sent: the context holds its status, the start message the earlier one
C31_Witness ==
    \E t \in AllTasks :
        /\ phase[t] = "failed"
        /\ Len(sent[t]) = 2
        /\ sent[t][1].status = "200"
        /\ Me(t).status = "403 Forbidden"

-----------------------------------------------------------------------------
(* C32 *)

\* C32: once a request is over, its last message sent or its handling ended
\* by an exception, the context holds nothing of it: it is as ctx.clear()
\* leaves it.
C32_ContextClearedAtEnd ==
    \A t \in AllTasks : RequestOver(t) => Me(t) = ClearedCtx

-----------------------------------------------------------------------------
(* C33 *)

\* C33: when a registered processor of an Engine returned without calling its
\* continuation, no later processor of that Engine and no handle() of it runs,
\* the value the processor returned is the result of the request, the
\* built-in load and unload hooks of the Engine each ran once, and the
\* app-stack is empty when the chain is over.
C33_ShortCircuit ==
    \A t \in AllTasks : \A i \in Events(t) :
        LET e == trace[t][i]
        IN  e.e = "short" =>
              /\ \A j \in Events(t) :
                    trace[t][j].app = e.app =>
                       /\ trace[t][j].e \notin {"match", "call", "delegate"}
                       /\ trace[t][j].e \in {"enter", "load", "unload", "pre", "post"}
                             => trace[t][j].idx <= e.idx
              /\ \A app \in Apps : MountedIn(app) = e.app => ~Reached(t, app)
              /\ Fired(t, "load", e.app, 1) = 1
              /\ Fired(t, "unload", e.app, 2) = 1
              /\ ChainOver(t) =>
                    /\ Me(t).app_stack = <<>>
                    /\ phase[t] # "failed"
                    /\ result[t] = Val(<<"short">>)
              /\ phase[t] = "done" => Body(t) = <<"short">>

\* A request delegated to the Engine whose processor short-circuits was
\* answered with the value of that processor
C33_Witness ==
    \E t \in AllTasks : \E i \in Events(t) :
        /\ phase[t] = "done"
        /\ trace[t][i].e = "short"
        /\ trace[t][i].app = "c"
        /\ Body(t) = <<"short">>
        /\ Fired(t, "load", "c", 3) = 1
        /\ Fired(t, "load", "c", 5) = 0
        /\ Fired(t, "unload", "c", 6) = 0

-----------------------------------------------------------------------------
(* C34 *)

\* handle() of task t holds the outcome of the chain of a mounted Engine,
\* which has just ended
ChildChainEnded(t) ==
    /\ stack[t] # <<>>
    /\ Top(t).fn = "handle"
    /\ Top(t).pc = "awaiting"
    /\ rv[t].m # "-"
    /\ trace[t] # <<>>
    /\ Last(trace[t]).e = "exit"
    /\ Last(trace[t]).idx = 1
    /\ MountedIn(Last(trace[t]).app) = Top(t).app

\* C34: what the chain of a mounted Engine returned or raised is what the
\* dispatch step of the mounting Engine returns or raises to that Engine's
\* processors: the same value, the same exception.
C34_ChildResultUnmodified ==
    [][\A t \in AllTasks :
          (ChildChainEnded(t) /\ stack'[t] = Below(t)) => rv'[t] = rv[t]]_vars

\* The value of a mounted Engine's chain, a processor of its own included,
\* has arrived at the frame of process() that called handle() in the root
C34_Witness ==
    \E t \in AllTasks :
        /\ InChain(t, "process")
        /\ layout = "hooks"
        /\ Top(t).app = RootApp
        /\ Top(t).pc = "handling"
        /\ rv[t].m = "ret"
        /\ rv[t].v.t = "val"
        /\ Fired(t, "exit", "c", 1) = 1
        /\ Fired(t, "post", "c", 3) = 1

\* An HTTPError raised in a mounted Engine has arrived in the root with its
\* status and data
C34_WitnessHTTPError ==
    \E t \in AllTasks :
        /\ InChain(t, "process")
        /\ Top(t).app = RootApp
        /\ Top(t).pc = "handling"
        /\ rv[t].m = "exc"
        /\ rv[t].e = Exc("HTTPError", "403 Forbidden", <<"forbidden">>)
        /\ Fired(t, "exit", "c", 1) = 1

-----------------------------------------------------------------------------
(* C35 *)

\* C35: when a request is over, with a response or with an exception, the
\* app-stack is empty, and for every Engine the built-in load hook ran as
\* often as the built-in unload hook, at most once each.
C35_AppStackBalanced ==
    \A t \in AllTasks :
        RequestOver(t) =>
            /\ Me(t).app_stack = <<>>
            /\ \A app \in Apps :
                  /\ Fired(t, "load", app, 1) = Fired(t, "unload", app, 2)
                  /\ Fired(t, "load", app, 1) = (IF Reached(t, app) THEN 1 ELSE 0)

\* A request that went three Engines deep ended with an exception; each of the
\* three pushed and popped once
C35_Witness ==
    \E t \in AllTasks :
        /\ phase[t] = "failed"
        /\ Me(t).app_stack = <<>>
        /\ \A app \in {"r", "c", "g"} :
              Fired(t, "load", app, 1) = 1 /\ Fired(t, "unload", app, 2) = 1

-----------------------------------------------------------------------------
(* C36 *)

\* C36: in every state of a request after load(), ctx.home is ctx.homedomain
\* followed by ctx.homepath, and ctx.homepath followed by ctx.path is the
\* root_path of the request followed by its decoded path.
C36_HomeAndPathConserved ==
    \A t \in AllTasks :
        InRequest(t) =>
            /\ Me(t).home = Me(t).homedomain \o Me(t).homepath
            /\ Me(t).homepath \o Me(t).path = scope[t].root_path \o OriginalPath(t)

\* A request with a root_path and a percent-encoded path is two mounts deep
C36_Witness ==
    \E t \in AllTasks :
        /\ phase[t] = "chain"
        /\ scope[t].root_path # <<>>
        /\ scope[t].path # OriginalPath(t)
        /\ Me(t).homepath = scope[t].root_path \o MountPrefix("g")
        /\ Me(t).path # OriginalPath(t)

-----------------------------------------------------------------------------
(* C37 *)

\* Event i delegates to a mounted Engine although a later entry of the same
\* mapping matches the whole path, and the mounted Engine matches nothing
CommittedToChild(t, i) ==
    LET e == trace[t][i]
        mapping == Mapping(e.app)
    IN  /\ e.e = "delegate"
        /\ \E k \in (e.idx + 1)..Len(mapping) :
              mapping[k].kind = "class" /\ EntryMatches(mapping[k], e.path)
        /\ \E j \in Events(t) : /\ j > i
                                /\ trace[t][j].e = "match"
                                /\ trace[t][j].app = e.who
                                /\ trace[t][j].idx = 0

\* The half of C37 about the matcher: after such a delegation the context is
\* rebased, the mapping of the parent is consulted no more and no handler is
\* called
C37_NoLaterEntryTried ==
    \A t \in AllTasks : \A i \in Events(t) :
        CommittedToChild(t, i) =>
            LET e == trace[t][i]
            IN  /\ trace[t][i + 1].path = DropFirst(e.path, Len(Mapping(e.app)[e.idx].pat.lit))
                /\ \A j \in Events(t) :
                      /\ trace[t][j].e # "call"
                      /\ (j > i /\ trace[t][j].app = e.app) => trace[t][j].e # "match"

\* C37: once the entry of a mounted Engine prefix-matched, no later entry of
\* the parent is tried and the not-found of the child is the outcome of the
\* request, also when a later entry of the parent matches the whole path: the
\* request is answered with status 404 and the not-found body.
C37_ChildNotFoundIsFinal ==
    \A t \in AllTasks : \A i \in Events(t) :
        (RequestOver(t) /\ CommittedToChild(t, i)) =>
            /\ \A j \in Events(t) : trace[t][j].e # "call"
            /\ phase[t] = "done"
            /\ sent[t][1].status = "404 Not Found"
            /\ Body(t) = NearestOverride(trace[t][i].who)

-----------------------------------------------------------------------------
(* C38 *)

RECURSIVE RequestBody(_)
\* The bodies of the http.request messages among msgs, in order
RequestBody(msgs) ==
    IF msgs = <<>> THEN <<>>
    ELSE (IF msgs[1].type = "http.request" THEN msgs[1].body ELSE <<>>)
            \o RequestBody(Tail(msgs))

\* C38: the read loop goes on as long as no http.request message with
\* more_body false was received and ends with the first such message;
\* messages of another type end nothing and add nothing to the body; the
\* chain is not started while the loop runs, and is started once after it.
C38_ReadLoopEndsOnLastRequestMessage ==
    \A t \in AllTasks :
        /\ phase[t] = "recv" =>
              /\ reading[t].more_body
              /\ \A k \in 1..Len(received[t]) : ~IsLastRequestMessage(received[t][k])
              /\ reading[t].body = RequestBody(received[t])
              /\ trace[t] = <<>> /\ stack[t] = <<>>
        /\ phase[t] = "dispatch" =>
              /\ ~reading[t].more_body
              /\ received[t] # <<>>
              /\ \A k \in 1..Len(received[t]) :
                    IsLastRequestMessage(received[t][k]) <=> k = Len(received[t])
              /\ reading[t].body = RequestBody(received[t])
              /\ trace[t] = <<>> /\ stack[t] = <<>>
        /\ Fired(t, "enter", Outermost(layout), 1) <= 1
        /\ (ChainOver(t) /\ Upper(scope[t].method) = scope[t].method)
              => Fired(t, "enter", Outermost(layout), 1) = 1

\* The loop ended after a message of another type, a request message with
\* more_body true and the last request message; the body is that of the two
\* request messages
C38_Witness ==
    \E t \in AllTasks :
        /\ phase[t] = "dispatch"
        /\ Len(received[t]) = 3
        /\ received[t][1].type = "http.disconnect"
        /\ ~received[t][1].more_body
        /\ received[t][2].more_body
        /\ reading[t].body = <<"x", "y">>

-----------------------------------------------------------------------------
(* C39 *)

\* The headers of the context as pairs
ContextHeaders(c) == {c.headers.items[k] : k \in 1..Len(c.headers.items)}

\* C39: as soon as an HTTPError was constructed the context holds its status
\* and its headers -- after NoMethod(cls), status 405 with Content-Type and
\* Allow -- and the start message that follows carries the status the context
\* holds then.
C39_ConstructionSetsStatusAndHeaders ==
    \A t \in AllTasks :
        /\ (trace[t] # <<>> /\ Last(trace[t]).e = "nomethod") =>
              /\ Me(t).status = "405 Method Not Allowed"
              /\ ContentTypeHtml \in ContextHeaders(Me(t))
              /\ << <<"Allow">>, JoinComma(AllowedMethods(Last(trace[t]).who)) >>
                    \in ContextHeaders(Me(t))
        /\ Len(sent[t]) = 1 => sent[t][1].status = Me(t).status

-----------------------------------------------------------------------------
(* C40 *)

\* Header names and values header() is called with
HeaderNames == { <<"Content-Type">>, <<"X", NL>> }

HeaderTexts == { <<"text/html">>, <<"a", "\r", "b">> }

\* C40: applied to the context of a request, header(name, value, unique)
\* raises ValueError and changes nothing when name or value holds a carriage
\* return or a line feed; with unique it changes nothing when a header of
\* that name is present; in every other case it raises nothing and the header
\* is recorded.
C40_HeaderRecords ==
    \A t \in AllTasks : \A hdr \in HeaderNames : \A value \in HeaderTexts :
        \A unique \in BOOLEAN :
            InRequest(t) =>
                LET r == Header(Me(t), hdr, value, unique)
                IN  IF HasCRLF(hdr) \/ HasCRLF(value)
                    THEN r.raised = "ValueError" /\ r.ctx = Me(t)
                    ELSE IF unique /\ HeaderPresent(Me(t), hdr)
                    THEN r.raised = "-" /\ r.ctx = Me(t)
                    ELSE /\ r.raised = "-"
                         /\ <<hdr, value>> \in ContextHeaders(r.ctx)

====
